---------------------------- MODULE Spec2Model ----------------------------
(***************************************************************************)
(* A model of the media path resolution and transformation engine of       *)
(* ghost-webp-conversion: path canonicalisation and URL rewriting          *)
(* (file_handler.py), the conversion run (main.py, file_handler.py,        *)
(* api_handler.py), the reorganize run and its restore (reorganize.py)     *)
(* and orphan detection (cleanup.py).                                      *)
(*                                                                         *)
(* Strings are sequences of tokens.  A token is a run of characters that   *)
(* no operation of the program ever splits: "/" is the path separator,     *)
(* "/content/images" the URL root of the image category, "size", "w600",   *)
(* "format", "webp" are path segments, "a", "_o", "_png", "_1" are pieces  *)
(* of a file name, ".png" an extension, "%20" a percent-encoded space.     *)
(* Two strings are equal iff their token sequences are equal.              *)
(***************************************************************************)
EXTENDS Integers, Sequences, FiniteSets, TLC

VARIABLES
    stage,          \* position of the function-level harnesses ("idle" when unused)
    inp,            \* the input the harness drew
    out,            \* what the functions under the harness returned
    prog,           \* the script that runs: "convert", "reorganize", "restore"
    pc,             \* the position of its main()
    dry_run,        \* --dry
    nobackup,       \* --nobackup
    fs,             \* the files under images_path: path -> [id, kind]
    size_files,     \* the files under <content>/size: <<directory, file name>>
    image_paths,    \* main.py: all_images
    tasks,          \* reorganize.py: all_tasks
    pass,           \* the dry_run argument of the running convert_images_to_webp
    wk,             \* the pool's workers: task index -> [st, output_path, result]
    conv_map,       \* main.py: conversion_map / reorganize.py: successful_conversions
    plan,           \* the conversion plan file: [written, map]
    conv_log,       \* the conversion log file: [written, lines]
    exec_log,       \* the reorganize execution log file: [written, lines]
    store,          \* the content store: the posts, [html, feature_image]
    puts,           \* the updates sent to the content store, in order
    cursor,         \* the number of items (or log lines) the running loop has handled
    fs0,            \* history: fs when the script started
    store0,         \* history: store when the script started
    used_images,    \* cleanup.py: what get_used_images_from_api returned
    unused_files,   \* cleanup.py: what find_unused_images returned
    archive,        \* cleanup.py: the backup archive: [written, lines]
    answer          \* cleanup.py: what the user typed at the prompt ("" before)

cleanVars == <<used_images, unused_files, archive, answer>>

pureVars == <<stage, inp, out>>

progVars == <<prog, pc, dry_run, nobackup, fs, size_files, image_paths, tasks, pass, wk,
              conv_map, plan, conv_log, exec_log, store, puts, cursor, fs0, store0,
              cleanVars>>

vars == <<stage, inp, out, prog, pc, dry_run, nobackup, fs, size_files, image_paths, tasks,
          pass, wk, conv_map, plan, conv_log, exec_log, store, puts, cursor, fs0,
          store0, used_images, unused_files, archive,
          answer>>

-----------------------------------------------------------------------------
(* Tokens *)

SLASH == "/"
CI == "/content/images"                 \* the literal '/content/images'
HOST == "https://host"                  \* scheme and netloc of the site
GHOST_URL == "__GHOST_URL__"            \* the CMS placeholder prefix

WidthTokens == {"w600", "w300"}         \* segments matching w\d+
ExtTokens == {".png", ".jpg", ".jpeg", ".gif", ".bmp", ".tiff", ".webp", ".ico", ".mp4",
              ".PNG", ".WEBP"}

\* python: s[a:b] on token sequences, 1-based inclusive, empty when a > b
Slice(s, a, b) == IF a > b THEN <<>> ELSE SubSeq(s, a, b)

Drop(s, n) == Slice(s, n + 1, Len(s))


\* the index of the last "/" of s, 0 when there is none
LastSlash(s) ==
    LET idx == {i \in 1..Len(s) : s[i] = SLASH}
    IN  IF idx = {} THEN 0 ELSE CHOOSE i \in idx : \A j \in idx : j <= i

\* os.path.basename / os.path.dirname (dirname without the trailing "/")
Basename(s) == Drop(s, LastSlash(s))
Dirname(s) == Slice(s, 1, LastSlash(s) - 1)

\* os.path.splitext: the extension is the last token when it is an extension
\* token and not the first token of the base name (a leading dot is no extension)
HasExt(s) ==
    /\ Len(Basename(s)) >= 2
    /\ s[Len(s)] \in ExtTokens
SplitBase(s) == IF HasExt(s) THEN Slice(s, 1, Len(s) - 1) ELSE s
SplitExt(s) == IF HasExt(s) THEN <<s[Len(s)]>> ELSE <<>>

-----------------------------------------------------------------------------
(* file_handler.py: unquote, urlparse, urlunparse as used by _process_url *)

\* urllib.parse.unquote: one level of percent-decoding
UnquoteTok(t) ==
    CASE t = "%20" -> " "
      [] t = "%2520" -> "%20"
      [] OTHER -> t
Unquote(url) == [i \in 1..Len(url) |-> UnquoteTok(url[i])]

\* urlparse(url): scheme+netloc (the HOST token when the url starts with it),
\* path (up to the query), query (the "?..." token and what follows)
QueryStart(url) ==
    LET idx == {i \in 1..Len(url) : url[i] = "?v=1"}
    IN  IF idx = {} THEN Len(url) + 1 ELSE CHOOSE i \in idx : \A j \in idx : i <= j
UrlNetloc(url) == IF Len(url) > 0 /\ url[1] = HOST THEN <<HOST>> ELSE <<>>
UrlPath(url) == Slice(url, Len(UrlNetloc(url)) + 1, QueryStart(url) - 1)
UrlQuery(url) == Slice(url, QueryStart(url), Len(url))
\* urlunparse(parsed._replace(path = p))
UrlUnparse(netloc, p, query) == netloc \o p \o query

-----------------------------------------------------------------------------
(* file_handler.py: _normalize_path *)

\* re.sub(r'/size/w\d+/?', '/', p): leftmost non-overlapping matches, one pass
RECURSIVE SubSize(_)
SubSize(p) ==
    IF p = <<>> THEN <<>>
    ELSE IF /\ Len(p) >= 4
            /\ p[1] = SLASH /\ p[2] = "size" /\ p[3] = SLASH
            /\ p[4] \in WidthTokens
         THEN IF Len(p) >= 5 /\ p[5] = SLASH
              THEN <<SLASH>> \o SubSize(Drop(p, 5))
              ELSE IF Len(p) >= 5 /\ p[5] = CI   \* the optional '/' is CI's own
              THEN <<CI>> \o SubSize(Drop(p, 5))
              ELSE <<SLASH>> \o SubSize(Drop(p, 4))
         ELSE <<p[1]>> \o SubSize(Tail(p))

\* re.sub(r'/format/webp/?', '/', p)
RECURSIVE SubFormat(_)
SubFormat(p) ==
    IF p = <<>> THEN <<>>
    ELSE IF /\ Len(p) >= 4
            /\ p[1] = SLASH /\ p[2] = "format" /\ p[3] = SLASH
            /\ p[4] = "webp"
         THEN IF Len(p) >= 5 /\ p[5] = SLASH
              THEN <<SLASH>> \o SubFormat(Drop(p, 5))
              ELSE IF Len(p) >= 5 /\ p[5] = CI
              THEN <<CI>> \o SubFormat(Drop(p, 5))
              ELSE <<SLASH>> \o SubFormat(Drop(p, 4))
         ELSE <<p[1]>> \o SubFormat(Tail(p))

\* p.replace('//', '/'): leftmost non-overlapping, one pass
RECURSIVE CollapseSlashes(_)
CollapseSlashes(p) ==
    IF p = <<>> THEN <<>>
    ELSE IF Len(p) >= 2 /\ p[1] = SLASH /\ p[2] = SLASH
         THEN <<SLASH>> \o CollapseSlashes(Drop(p, 2))
         ELSE IF Len(p) >= 2 /\ p[1] = SLASH /\ p[2] = CI  \* '/' + '/content/images'
         THEN <<CI>> \o CollapseSlashes(Drop(p, 2))
         ELSE <<p[1]>> \o CollapseSlashes(Tail(p))

NormalizePath(path_segment) == CollapseSlashes(SubFormat(SubSize(path_segment)))

-----------------------------------------------------------------------------
(* file_handler.py: _process_url *)

\* re.match(r'(/content/images/size/w\d+/)', path): the matched prefix, <<>> if none
SizeMatch(path) ==
    IF /\ Len(path) >= 6
       /\ path[1] = CI /\ path[2] = SLASH /\ path[3] = "size" /\ path[4] = SLASH
       /\ path[5] \in WidthTokens /\ path[6] = SLASH
    THEN Slice(path, 1, 6)
    ELSE <<>>

\* s.replace('/content/images/', repl, 1)
RECURSIVE ReplaceFirstCI(_, _)
ReplaceFirstCI(s, repl) ==
    IF Len(s) < 2 THEN s
    ELSE IF s[1] = CI /\ s[2] = SLASH THEN repl \o Drop(s, 2)
    ELSE <<s[1]>> \o ReplaceFirstCI(Tail(s), repl)

\* lines 56-78: the value returned for a hit new_url_or_path of the reference
\* original_url (already unquoted): the size prefix of the original re-inserted
Reconstruct(new_url_or_path, original_url) ==
    LET size_prefix == SizeMatch(UrlPath(original_url))
    IN  IF size_prefix = <<>> THEN new_url_or_path
        ELSE IF UrlNetloc(new_url_or_path) # <<>>
             THEN UrlUnparse(UrlNetloc(new_url_or_path),
                             ReplaceFirstCI(UrlPath(new_url_or_path), size_prefix),
                             UrlQuery(new_url_or_path))
             ELSE UrlUnparse(UrlNetloc(original_url),
                             ReplaceFirstCI(new_url_or_path, size_prefix),
                             UrlQuery(original_url))

\* lines 28-42: the key _process_url looks up after the direct lookup failed
Canonicalize(url) == NormalizePath(UrlPath(Unquote(url)))

\* line 50: the original extensions tried for an already-webp reference, in order
OriginalExts == <<".png", ".jpg", ".jpeg", ".gif", ".bmp", ".tiff">>

LowerTok(t) ==
    CASE t = ".PNG" -> ".png"
      [] t = ".WEBP" -> ".webp"
      [] t = "_O" -> "_o"
      [] OTHER -> t

\* lines 48-54: the first hit among base + original_ext, <<>> if none
WebpFallback(path_for_lookup, conversion_map) ==
    IF SplitExt(path_for_lookup) # <<>> /\ LowerTok(SplitExt(path_for_lookup)[1]) = ".webp"
    THEN LET base == SplitBase(path_for_lookup)
             hits == {i \in 1..Len(OriginalExts) :
                         base \o <<OriginalExts[i]>> \in DOMAIN conversion_map}
         IN  IF hits = {} THEN <<>>
             ELSE conversion_map[base \o
                     <<OriginalExts[CHOOSE i \in hits : \A j \in hits : i <= j]>>]
    ELSE <<>>

\* lines 29-54: the map value found for the (unquoted) reference, <<>> if none
Lookup(original_url, conversion_map) ==
    IF original_url \in DOMAIN conversion_map THEN conversion_map[original_url]
    ELSE LET path_for_lookup == NormalizePath(UrlPath(original_url))
         IN  IF path_for_lookup \in DOMAIN conversion_map
             THEN conversion_map[path_for_lookup]
             ELSE WebpFallback(path_for_lookup, conversion_map)

ProcessUrl(url, conversion_map) ==
    IF url = <<>> THEN url
    ELSE LET original_url == Unquote(url)
             new_url_or_path == Lookup(original_url, conversion_map)
         IN  IF new_url_or_path # <<>>
             THEN Reconstruct(new_url_or_path, original_url)
             ELSE original_url

-----------------------------------------------------------------------------
(* file_handler.py: the map entries of one converted image *)

IMAGES_PATH == <<"/var/lib/ghost", CI>>     \* config.images_path
API_URL_BASE == <<HOST>>                    \* config.ghost_api_url.rstrip('/')

\* os.path.relpath(path, base) for a path under base
RelPath(path, base) == Drop(path, Len(base) + 1)
\* os.path.join(base, rel)
PathJoin(base, rel) == base \o <<SLASH>> \o rel

\* lines 255-259: the /content/images form of a filesystem path
UrlPathOf(fs_path) == PathJoin(<<CI>>, RelPath(fs_path, IMAGES_PATH))

\* lines 286-300: the three entries a 'success' result adds to conversion_map
\* result = <<'success', image_path, output_path, url_path_original, url_path_new>>
MapEntriesAbsolute(result, m) == (API_URL_BASE \o result[4] :> API_URL_BASE \o result[5]) @@ m
MapEntriesUrl(result, m) == (result[4] :> result[5]) @@ m
MapEntriesFs(result, m) == (result[2] :> result[3]) @@ m
\* a map that lacks the /content/images entry
AddSuccessWithoutUrl(conversion_map, result) ==
    MapEntriesAbsolute(result, MapEntriesFs(result, conversion_map))

AddSuccess(conversion_map, result) ==
    MapEntriesAbsolute(result, MapEntriesUrl(result, MapEntriesFs(result, conversion_map)))

EmptyMap == [k \in {} |-> <<>>]

-----------------------------------------------------------------------------
(* api_handler.py: update_image_links_via_api, one content item *)

\* An HTML body is a sequence of elements.  An element has a name ("img", "video",
\* "audio", or "source" for a source element outside img/video/audio, such as one
\* inside picture), a src and a srcset (<<>> when absent), the src values of its
\* nested source elements, and canon: whether its text in the stored body is the
\* text BeautifulSoup writes for it.

\* s.split(sep) for a one-token separator
RECURSIVE SplitOn(_, _)
SplitOn(s, sep) ==
    LET idx == {i \in 1..Len(s) : s[i] = sep}
    IN  IF idx = {} THEN <<s>>
        ELSE LET i == CHOOSE i \in idx : \A j \in idx : i <= j
             IN  <<Slice(s, 1, i - 1)>> \o SplitOn(Drop(s, i), sep)

\* s.strip() for spaces
RECURSIVE Strip(_)
Strip(s) ==
    IF s = <<>> THEN s
    ELSE IF s[1] = " " THEN Strip(Tail(s))
    ELSE IF s[Len(s)] = " " THEN Strip(Slice(s, 1, Len(s) - 1))
    ELSE s

\* part.rsplit(' ', 1): <<url, descriptor>>
RSplitSpace(part) ==
    LET idx == {i \in 1..Len(part) : part[i] = " "}
    IN  IF idx = {} THEN <<part, <<>>>>
        ELSE LET i == CHOOSE i \in idx : \A j \in idx : j <= i
             IN  <<Slice(part, 1, i - 1), Drop(part, i)>>

\* ", ".join(parts)
RECURSIVE JoinCommaSpace(_)
JoinCommaSpace(parts) ==
    IF parts = <<>> THEN <<>>
    ELSE IF Len(parts) = 1 THEN parts[1]
    ELSE parts[1] \o <<",", " ">> \o JoinCommaSpace(Tail(parts))

\* the non-empty stripped parts of a srcset, in order
SrcsetParts(srcset) ==
    LET raw == SplitOn(srcset, ",")
        RECURSIVE keep(_)
        keep(ps) == IF ps = <<>> THEN <<>>
                    ELSE IF Strip(ps[1]) = <<>> THEN keep(Tail(ps))
                    ELSE <<Strip(ps[1])>> \o keep(Tail(ps))
    IN  keep(raw)

\* lines 168-182: the rewritten srcset value
RewriteSrcset(old_srcset, conversion_map) ==
    LET parts == SrcsetParts(old_srcset)
        one(part) ==
            LET ud == RSplitSpace(part)
                new_url == ProcessUrl(ud[1], conversion_map)
            IN  IF ud[2] # <<>> THEN new_url \o <<" ">> \o ud[2] ELSE new_url
    IN  JoinCommaSpace([i \in 1..Len(parts) |-> one(parts[i])])

\* lines 152-199: one element after the loop body ran on it
RewriteTag(tag, conversion_map) ==
    IF tag.name \in {"img", "video", "audio"}
    THEN [tag EXCEPT
            !.src = ProcessUrl(@, conversion_map),
            !.srcset = IF tag.name = "img" THEN RewriteSrcset(@, conversion_map) ELSE @,
            !.sources = [i \in 1..Len(@) |-> ProcessUrl(@[i], conversion_map)]]
    ELSE tag

\* str(soup): every element written the way BeautifulSoup writes it
Serialize(html) == [i \in 1..Len(html) |-> [html[i] EXCEPT !.canon = TRUE]]

\* lines 137-218 for one item: <<the item afterwards, html_changed>>
RewriteItem(item, conversion_map) ==
    IF item.html = <<>> THEN <<item, FALSE>>                \* lines 137-139
    ELSE
    LET tags == [i \in 1..Len(item.html) |-> RewriteTag(item.html[i], conversion_map)]
        tags_changed == \E i \in 1..Len(tags) : tags[i] # item.html[i]
        new_feature_image == ProcessUrl(item.feature_image, conversion_map)
        feature_changed == item.feature_image # <<>> /\ new_feature_image # item.feature_image
        html_changed == tags_changed \/ feature_changed
    IN  IF html_changed
        THEN <<[item EXCEPT !.html = Serialize(tags),
                            !.feature_image = IF feature_changed THEN new_feature_image ELSE @],
               TRUE>>
        ELSE <<item, FALSE>>

-----------------------------------------------------------------------------
(* The function-level harnesses run no script, the scripts use no harness *)

NoFile == [written |-> FALSE, lines |-> <<>>]
NoFiles == [k \in {} |-> [id |-> <<>>, kind |-> "img"]]

\* cleanup.py does not run
CleanIdle == used_images = {} /\ unused_files = {} /\ archive = NoFile /\ answer = ""

ProgIdle ==
    /\ prog = "none" /\ pc = "idle" /\ dry_run = FALSE /\ nobackup = FALSE
    /\ fs = NoFiles /\ size_files = {} /\ image_paths = <<>> /\ tasks = <<>>
    /\ pass = "none" /\ wk = <<>> /\ conv_map = EmptyMap
    /\ plan = [written |-> FALSE, map |-> EmptyMap]
    /\ conv_log = NoFile /\ exec_log = NoFile
    /\ store = <<>> /\ puts = <<>> /\ cursor = 0 /\ fs0 = NoFiles /\ store0 = <<>>
    /\ CleanIdle

PureIdle == stage = "idle" /\ inp = [none |-> TRUE] /\ out = [none |-> TRUE]

-----------------------------------------------------------------------------
(* Bounds of the reference universe *)

MaxSegs == 4        \* directory segments between the category root and the file name

SegTokens == {"size", "w600", "format", "webp", "2024"}

RECURSIVE SegPaths(_)
\* every "/seg/seg/..." of at most n segments (without the trailing "/")
SegPaths(n) ==
    IF n = 0 THEN {<<>>}
    ELSE LET shorter == SegPaths(n - 1)
         IN  shorter \cup {p \o <<SLASH, t>> : p \in {q \in shorter : Len(q) = 2 * (n - 1)},
                                                t \in SegTokens}

FileNames == {<<"a", ".png">>, <<"a", "_o", ".png">>, <<"a", "%20", "b", ".png">>,
              <<"a", "%2520", "b", ".png">>, <<"a", ".webp">>}
Prefixes == {<<>>, <<HOST>>, <<GHOST_URL>>}

\* the references of the harnesses: prefix + /content/images + segments + / + name
RefUniverse ==
    {pre \o <<CI>> \o segs \o <<SLASH>> \o name :
        pre \in Prefixes, segs \in SegPaths(MaxSegs), name \in FileNames}

-----------------------------------------------------------------------------
(* Harness of the canonicaliser: canonicalize, reconstruct, canonicalize *)

CanonInit ==
    /\ ProgIdle
    /\ stage = "canon_in"
    /\ inp \in {[v |-> v] : v \in RefUniverse}
    /\ out = [c1 |-> <<>>, r |-> <<>>, c2 |-> <<>>, cc |-> <<>>]

Canon1 ==
    /\ stage = "canon_in"
    /\ out' = [out EXCEPT !.c1 = Canonicalize(inp.v)]
    /\ stage' = "canon_c1"
    /\ UNCHANGED <<inp, progVars>>

ReconstructStep ==
    /\ stage = "canon_c1"
    /\ out' = [out EXCEPT !.r = Reconstruct(out.c1, Unquote(inp.v))]
    /\ stage' = "canon_r"
    /\ UNCHANGED <<inp, progVars>>

Canon2 ==
    /\ stage = "canon_r"
    /\ out' = [out EXCEPT !.c2 = Canonicalize(out.r), !.cc = Canonicalize(out.c1)]
    /\ stage' = "canon_done"
    /\ UNCHANGED <<inp, progVars>>

CanonNext == Canon1 \/ ReconstructStep \/ Canon2

SpecCanon == CanonInit /\ [][CanonNext]_vars

\* C6: canonicalising the variant rebuilt from canonicalize(v) with v as template
\* gives canonicalize(v) again, and canonicalize(canonicalize(v)) = canonicalize(v)
C6_CanonIdempotent ==
    stage = "canon_done" => (out.c2 = out.c1 /\ out.cc = out.c1)

-----------------------------------------------------------------------------
(* Harness of the rewriter: one content item against one conversion map *)

MaxTags == 2        \* elements in the HTML body of a harness item

Img(src, srcset, canon) ==
    [name |-> "img", src |-> src, srcset |-> srcset, sources |-> <<>>, canon |-> canon]
Media(name, src, sources) ==
    [name |-> name, src |-> src, srcset |-> <<>>, sources |-> sources, canon |-> TRUE]
PictureSource(srcset) ==
    [name |-> "source", src |-> <<>>, srcset |-> srcset, sources |-> <<>>, canon |-> TRUE]
Paragraph == [name |-> "p", src |-> <<>>, srcset |-> <<>>, sources |-> <<>>, canon |-> TRUE]

\* file system paths and references of the harness
FsA == IMAGES_PATH \o <<SLASH, "2024", SLASH, "a", ".png">>
FsAw == IMAGES_PATH \o <<SLASH, "2024", SLASH, "a", ".webp">>
FsS == IMAGES_PATH \o <<SLASH, "2024", SLASH, "a", " ", "b", ".png">>
FsSw == IMAGES_PATH \o <<SLASH, "2024", SLASH, "a", " ", "b", ".webp">>
FsX == IMAGES_PATH \o <<SLASH, "2024", SLASH, "x", ".png">>
FsXw == IMAGES_PATH \o <<SLASH, "2024", SLASH, "x", ".webp">>

UrlA == <<HOST, CI, SLASH, "2024", SLASH, "a", ".png">>
UrlASize == <<CI, SLASH, "size", SLASH, "w600", SLASH, "2024", SLASH, "a", ".png">>
UrlB == <<HOST, CI, SLASH, "2024", SLASH, "b", ".png">>
UrlBSize == <<HOST, CI, SLASH, "size", SLASH, "w300", SLASH, "2024", SLASH, "b", ".png">>
UrlSEnc == <<HOST, CI, SLASH, "2024", SLASH, "a", "%20", "b", ".png">>

HarnessSrcs == {<<>>, UrlA, UrlASize, UrlB, UrlSEnc}
HarnessSrcsets ==
    {<<>>,
     UrlBSize \o <<" ", "300w", ",", " ">> \o UrlB \o <<" ", "600w">>,   \* "u 300w, v 600w"
     UrlBSize \o <<" ", "300w", ",">> \o UrlB \o <<" ", "600w">>,       \* "u 300w,v 600w"
     UrlASize \o <<" ", "600w">>}
HarnessTags ==
    {Img(src, <<>>, c) : src \in HarnessSrcs \ {<<>>}, c \in BOOLEAN}
    \cup {Img(<<>>, ss, TRUE) : ss \in HarnessSrcsets \ {<<>>}}
    \cup {Media("video", UrlB, <<UrlA>>), PictureSource(UrlASize \o <<" ", "600w">>),
          Paragraph}

RECURSIVE SeqsUpTo(_, _)
\* the sequences over S of length at most n
SeqsUpTo(S, n) ==
    IF n = 0 THEN {<<>>}
    ELSE LET shorter == SeqsUpTo(S, n - 1)
         IN  shorter \cup {Append(q, x) : q \in {r \in shorter : Len(r) = n - 1}, x \in S}

HarnessItems ==
    {[html |-> h, feature_image |-> f] :
        h \in SeqsUpTo(HarnessTags, MaxTags), f \in {<<>>, UrlA, UrlSEnc}}

SuccessOf(old, new) == <<"success", old, new, UrlPathOf(old), UrlPathOf(new)>>
HarnessRenames == {SuccessOf(FsA, FsAw), SuccessOf(FsS, FsSw), SuccessOf(FsX, FsXw)}

RECURSIVE MapOfResults(_)
MapOfResults(R) ==
    IF R = {} THEN EmptyMap
    ELSE LET r == CHOOSE r \in R : TRUE IN AddSuccess(MapOfResults(R \ {r}), r)

RewriteInit ==
    /\ ProgIdle
    /\ stage = "rw_in"
    /\ inp \in {[item |-> it, conversion_map |-> MapOfResults(R), dry_run |-> d] :
                    it \in HarnessItems, R \in SUBSET HarnessRenames, d \in BOOLEAN}
    /\ out = [item |-> inp.item, changed |-> FALSE, sent |-> FALSE]

\* lines 97-99 and 136-218: the map is empty (nothing is visited) or the item is rewritten
RewriteStep ==
    /\ stage = "rw_in"
    /\ LET r == IF DOMAIN inp.conversion_map = {} THEN <<inp.item, FALSE>>
                ELSE RewriteItem(inp.item, inp.conversion_map)
       IN  out' = [out EXCEPT !.item = r[1], !.changed = r[2]]
    /\ stage' = "rw_rewritten"
    /\ UNCHANGED <<inp, progVars>>

\* lines 216-234: the PUT of a changed item unless dry_run
SendStep ==
    /\ stage = "rw_rewritten"
    /\ out' = [out EXCEPT !.sent = out.changed /\ ~inp.dry_run]
    /\ stage' = "rw_done"
    /\ UNCHANGED <<inp, progVars>>

RewriteNext == RewriteStep \/ SendStep

SpecRewrite == RewriteInit /\ [][RewriteNext]_vars

\* the references of an item: src, srcset urls, nested source src, feature_image
TagRefs(tag) ==
    {tag.src} \cup {tag.sources[i] : i \in 1..Len(tag.sources)}
    \cup {RSplitSpace(SrcsetParts(tag.srcset)[i])[1] : i \in 1..Len(SrcsetParts(tag.srcset))}
ItemRefs(item) ==
    ({item.feature_image} \cup UNION {TagRefs(item.html[i]) : i \in 1..Len(item.html)})
        \ {<<>>}
NoMatch(item, conversion_map) ==
    \A u \in ItemRefs(item) : Lookup(Unquote(u), conversion_map) = <<>>

\* C2: an item none of whose references has a matching key comes back
\* byte-identical, with changed = false, and no update is sent
C2_RewriteLocality ==
    (stage = "rw_done" /\ NoMatch(inp.item, inp.conversion_map))
        => (out.item = inp.item /\ ~out.changed /\ ~out.sent)

-----------------------------------------------------------------------------
(* cleanup.py: find_unused_images *)

\* a token made of \w characters only
IsWordTok(t) == t \notin {SLASH, CI, " ", "%20", "%2520", "?v=1", ","} /\ t \notin ExtTokens

\* size_regex.sub('', p) with size_regex = r'/size/w\d+'
RECURSIVE CleanupSubSize(_)
CleanupSubSize(p) ==
    IF p = <<>> THEN <<>>
    ELSE IF /\ Len(p) >= 4
            /\ p[1] = SLASH /\ p[2] = "size" /\ p[3] = SLASH
            /\ p[4] \in WidthTokens
         THEN CleanupSubSize(Drop(p, 4))
         ELSE <<p[1]>> \o CleanupSubSize(Tail(p))

\* the number of leading word tokens of p
RECURSIVE WordRun(_)
WordRun(p) == IF p # <<>> /\ IsWordTok(p[1]) THEN 1 + WordRun(Tail(p)) ELSE 0

\* format_regex.sub('', p) with format_regex = r'/format/\w+'
RECURSIVE CleanupSubFormat(_)
CleanupSubFormat(p) ==
    IF p = <<>> THEN <<>>
    ELSE IF /\ Len(p) >= 4
            /\ p[1] = SLASH /\ p[2] = "format" /\ p[3] = SLASH
            /\ IsWordTok(p[4])
         THEN CleanupSubFormat(Drop(p, 3 + WordRun(Drop(p, 3))))
         ELSE <<p[1]>> \o CleanupSubFormat(Tail(p))

\* the path compared as it is, no segment removed
CleanupBaseUnstripped(path) == Strip(path)

\* lines 152 and 164: the base path of a used path or of a file on disk
CleanupBase(path) == CleanupSubFormat(CleanupSubSize(Strip(path)))

\* lines 150-153
BaseUsedPaths(used_api_paths) == {CleanupBase(path) : path \in used_api_paths}

\* lines 170-175: the path with the trailing _o of the file name removed
OStrippedBasePath(base_physical_path) ==
    LET path_dir == Dirname(base_physical_path)
        path_filename == Basename(base_physical_path)
        filename_no_ext == SplitBase(path_filename)
        ext == SplitExt(path_filename)
    IN  PathJoin(path_dir, Slice(filename_no_ext, 1, Len(filename_no_ext) - 1) \o ext)

\* line 173: filename_no_ext.lower().endswith('_o')
EndsWithO(path) ==
    LET filename_no_ext == SplitBase(Basename(path))
    IN  filename_no_ext # <<>> /\ LowerTok(filename_no_ext[Len(filename_no_ext)]) = "_o"

\* lines 164-177: is_used of one file on disk
IsUsedBidirectional(db_style_path, base_used_paths) ==
    LET base_physical_path == CleanupBase(db_style_path)
        with_o == PathJoin(Dirname(base_physical_path),
                           SplitBase(Basename(base_physical_path)) \o <<"_o">>
                               \o SplitExt(Basename(base_physical_path)))
    IN  \/ base_physical_path \in base_used_paths
        \/ EndsWithO(base_physical_path)
              /\ OStrippedBasePath(base_physical_path) \in base_used_paths
        \/ with_o \in base_used_paths
IsUsed(db_style_path, base_used_paths) ==
    LET base_physical_path == CleanupBase(db_style_path)
    IN  IF base_physical_path \in base_used_paths THEN TRUE
        ELSE IF EndsWithO(base_physical_path)
             THEN OStrippedBasePath(base_physical_path) \in base_used_paths
             ELSE FALSE

\* lines 136-142: the absolute path of a db-style path
AbsoluteOf(db_style_path) == IMAGES_PATH \o Drop(db_style_path, 1)

\* lines 162-180: the absolute paths of the files that are not used
UnusedFilePaths(physical_files, used_api_paths) ==
    {AbsoluteOf(f) : f \in {g \in physical_files : ~IsUsed(g, BaseUsedPaths(used_api_paths))}}

-----------------------------------------------------------------------------
(* Harness of orphan detection *)

MaxPhysical == 3    \* files on disk in the harness
MaxUsed == 2        \* used paths the API scan returned

CleanNames == {<<"a", ".png">>, <<"a", "_o", ".png">>, <<"b", ".png">>, <<"b", "_O", ".png">>}
PhysUniverse ==
    {<<CI>> \o d \o <<SLASH>> \o n :
        d \in {<<SLASH, "2024">>, <<SLASH, "size", SLASH, "w600", SLASH, "2024">>},
        n \in CleanNames}
UsedUniverse ==
    {<<CI>> \o d \o <<SLASH>> \o n :
        d \in {<<SLASH, "2024">>, <<SLASH, "size", SLASH, "w300", SLASH, "2024">>,
               <<SLASH, "format", SLASH, "webp", SLASH, "2024">>},
        n \in CleanNames}

CleanupInit ==
    /\ ProgIdle
    /\ stage = "cl_in"
    /\ inp \in {[physical |-> P, used |-> U] :
                    P \in {Q \in SUBSET PhysUniverse : Cardinality(Q) <= MaxPhysical},
                    U \in {V \in SUBSET UsedUniverse : Cardinality(V) <= MaxUsed}}
    /\ out = [unused |-> {}]

FindUnusedImages ==
    /\ stage = "cl_in"
    /\ out' = [unused |-> UnusedFilePaths(inp.physical, inp.used)]
    /\ stage' = "cl_done"
    /\ UNCHANGED <<inp, progVars>>

CleanupNext == FindUnusedImages

SpecCleanup == CleanupInit /\ [][CleanupNext]_vars

\* the path with size and format segments removed, and with a trailing _o (any
\* case) of the file name removed
PlainBase(path) == CleanupBase(path)
HasOSuffix(path) == Len(path) >= 2 /\ path[Len(path) - 1] \in {"_o", "_O"}
WithoutOSuffix(path) == Slice(path, 1, Len(path) - 2) \o <<path[Len(path)]>>
WithOSuffix(path) == Slice(path, 1, Len(path) - 1) \o <<"_o", path[Len(path)]>>

\* C5: a file on disk counts as used iff its normalised path is used, or its name
\* ends in _o and the _o-stripped path is used; a file without _o never counts as
\* used because the _o form of it is referenced
C5_AliasFallbackDirectional ==
    stage = "cl_done" =>
        \A f \in inp.physical :
            LET used == {PlainBase(u) : u \in inp.used}
                treated_used == AbsoluteOf(f) \notin out.unused
            IN  /\ treated_used <=>
                      \/ PlainBase(f) \in used
                      \/ HasOSuffix(PlainBase(f)) /\ WithoutOSuffix(PlainBase(f)) \in used
                /\ (~HasOSuffix(PlainBase(f)) /\ PlainBase(f) \notin used) => ~treated_used

\* a_o.png on disk is used through a.png, and b.png on disk is unused although
\* b_O.png is referenced
C5_Witness ==
    /\ stage = "cl_done"
    /\ \E f \in inp.physical :
          /\ HasOSuffix(f) /\ PlainBase(f) \notin {PlainBase(u) : u \in inp.used}
          /\ AbsoluteOf(f) \notin out.unused
    /\ \E f \in inp.physical :
          /\ ~HasOSuffix(f)
          /\ WithOSuffix(PlainBase(f)) \in {PlainBase(u) : u \in inp.used}
          /\ AbsoluteOf(f) \in out.unused

-----------------------------------------------------------------------------
(* main.py: find_duplicates_from_list, and file_handler.py: _convert_worker *)

\* the groups of listed paths that are equal once the extension is removed, with more
\* than one member (the values of the duplicates dict)
find_duplicates_from_list(paths) ==
    LET group(b) == {i \in 1..Len(paths) : SplitBase(paths[i]) = b}
    IN  {{paths[i] : i \in group(b)} :
            b \in {SplitBase(paths[i]) : i \in {j \in 1..Len(paths) :
                        Cardinality(group(SplitBase(paths[j]))) > 1}}}

\* original_ext.replace('.', '_')
ExtUnderscore(ext) == CASE ext = ".png" -> "_png" [] ext = ".jpg" -> "_jpg"
                        [] ext = ".jpeg" -> "_jpeg" [] ext = ".gif" -> "_gif"
                        [] ext = ".bmp" -> "_bmp" [] ext = ".tiff" -> "_tiff"
                        [] ext = ".webp" -> "_webp" [] ext = ".ico" -> "_ico"
                        [] ext = ".mp4" -> "_mp4" [] ext = ".PNG" -> "_PNG"
                        [] ext = ".WEBP" -> "_WEBP"

\* f"_{counter}"
NumTok(counter) == "_" \o ToString(counter)

\* the name is final_basename: the extension goes into it for a member of a duplicate
\* group, and a trailing _o is taken off before and put back after
FinalBasename(image_path, duplicates) ==
    LET original_basename == SplitBase(Basename(image_path))
        original_ext == SplitExt(image_path)[1]
        is_duplicate == \E path_list \in duplicates : image_path \in path_list
        has_o_suffix == original_basename # <<>>
                        /\ LowerTok(original_basename[Len(original_basename)]) = "_o"
        stripped == IF has_o_suffix THEN Slice(original_basename, 1, Len(original_basename) - 1)
                    ELSE original_basename
        withExt == IF is_duplicate THEN stripped \o <<ExtUnderscore(original_ext)>>
                   ELSE stripped
    IN  IF has_o_suffix THEN withExt \o <<"_o">> ELSE withExt

OutputPath(output_dir, basename) == output_dir \o <<SLASH>> \o basename \o <<".webp">>

MaxAttempts == 100      \* if counter > 100: raise

\* the loop without its test: the name with _1 whenever the first name is taken
UniqueOutputUntested(output_dir, final_basename, existing) ==
    [st |-> "ok",
     output_path |-> IF OutputPath(output_dir, final_basename) \notin existing
                     THEN OutputPath(output_dir, final_basename)
                     ELSE OutputPath(output_dir, final_basename \o <<NumTok(1)>>)]

\* the exists-loop: the first output path that no file has, or "error" when the counter
\* passes MaxAttempts (the candidate with the number MaxAttempts is assigned, never tested)
UniqueOutput(output_dir, final_basename, existing) ==
    LET free == {c \in 1..(MaxAttempts - 1) :
                    OutputPath(output_dir, final_basename \o <<NumTok(c)>>) \notin existing}
        first == CHOOSE c \in free : \A d \in free : c <= d
    IN  IF OutputPath(output_dir, final_basename) \notin existing
        THEN [st |-> "ok", output_path |-> OutputPath(output_dir, final_basename)]
        ELSE IF free = {} THEN [st |-> "error", output_path |-> <<>>]
        ELSE [st |-> "ok",
              output_path |-> OutputPath(output_dir, final_basename \o <<NumTok(first)>>)]

Skips(image_path) == ~HasExt(image_path) \/ LowerTok(SplitExt(image_path)[1]) = ".ico"

\* the three shapes of a worker's return value
SkippedResult(image_path) == <<"skipped", image_path, <<"no extension or icon">>>>
SuccessResult(image_path, output_path) ==
    <<"success", image_path, output_path, UrlPathOf(image_path), UrlPathOf(output_path)>>

\* except Exception as e: return ('error', image_path, str(e), None, None)
FailureAsSuccess(image_path, e) ==
    SuccessResult(image_path, SplitBase(image_path) \o <<".webp">>)
RaisedResult(image_path, e) == <<"raised", image_path, <<e>>, <<>>, <<>>>>
ErrorResult(image_path, e) == <<"error", image_path, <<e>>, <<>>, <<>>>>

\* if not dry_run: the branch that opens the image and saves the output
IgnoresDry(dry) == TRUE
Mutates(dry) == ~dry

-----------------------------------------------------------------------------
(* file_handler.py: convert_images_to_webp, the pool and the aggregation *)

\* multiprocessing.Pool.map: every task is handed to a worker; map returns the list of
\* return values, or raises what a worker raised
Ready == [st |-> "ready", output_path |-> <<>>, result |-> <<>>]
PoolOf(n) == [i \in 1..n |-> Ready]
AllDone == \A i \in DOMAIN wk : wk[i].st = "done"
Raised == \E i \in DOMAIN wk : wk[i].result[1] = "raised"
Results == [i \in DOMAIN wk |-> wk[i].result]
Finish(i, result) == wk' = [wk EXCEPT ![i] = [@ EXCEPT !.st = "done", !.result = result]]

\* lines 284-307: the map built from the results, in the order of the list
RECURSIVE Aggregate(_)
Aggregate(results) ==
    IF results = <<>> THEN EmptyMap
    ELSE LET last == results[Len(results)]
             before == Aggregate(Slice(results, 1, Len(results) - 1))
         IN  IF last[1] = "success" THEN AddSuccess(before, last) ELSE before

\* lines 284-307: the lines of the conversion log; an error writes none
RECURSIVE LogLines(_)
LogLines(results) ==
    IF results = <<>> THEN <<>>
    ELSE LET r == results[1]
         IN  (IF r[1] = "success" THEN <<<<"success", r[2], r[3]>>>>
              ELSE IF r[1] = "skipped" THEN <<<<"skipped", r[2], r[3]>>>>
              ELSE <<>>) \o LogLines(Tail(results))

File(id, kind) == [id |-> id, kind |-> kind]
Readable(files, path) == path \in DOMAIN files /\ files[path].kind \in {"img", "webp"}
WriteFile(files, path, file) == [q \in DOMAIN files \cup {path} |->
                                    IF q = path THEN file ELSE files[q]]

Converting == prog = "convert" /\ pc \in {"analysis", "convert"}

\* lines 209-245 (and 252-261 when nothing is to be written): the worker up to the
\* decision on its output path
WorkerPlan(i) ==
    /\ Converting /\ wk[i].st = "ready"
    /\ LET image_path == image_paths[i]
           duplicates == find_duplicates_from_list(image_paths)
           u == UniqueOutput(Dirname(image_path), FinalBasename(image_path, duplicates),
                             DOMAIN fs)
       IN  IF Skips(image_path) THEN Finish(i, SkippedResult(image_path))
           ELSE IF u.st = "error" THEN Finish(i, ErrorResult(image_path, "no unique filename"))
           ELSE IF Mutates(pass = "dry")
                THEN wk' = [wk EXCEPT ![i] = [@ EXCEPT !.st = "planned",
                                                       !.output_path = u.output_path]]
           ELSE Finish(i, SuccessResult(image_path, u.output_path))
    /\ UNCHANGED <<pureVars, cleanVars, prog, pc, dry_run, nobackup, fs, size_files,
                   image_paths, tasks,
                   pass, conv_map, plan, conv_log, exec_log, store, puts, cursor, fs0, store0>>

\* lines 247-251: Image.open raises on a missing or unreadable source; img.save opens
\* the output path for writing
WorkerOpen(i) ==
    /\ Converting /\ wk[i].st = "planned"
    /\ IF Readable(fs, image_paths[i])
       THEN /\ fs' = WriteFile(fs, wk[i].output_path, File(image_paths[i], "partial"))
            /\ wk' = [wk EXCEPT ![i] = [@ EXCEPT !.st = "writing"]]
       ELSE /\ Finish(i, ErrorResult(image_paths[i], "cannot identify image file"))
            /\ fs' = fs
    /\ UNCHANGED <<pureVars, cleanVars, prog, pc, dry_run, nobackup, size_files,
                   image_paths, tasks,
                   pass, conv_map, plan, conv_log, exec_log, store, puts, cursor, fs0, store0>>

\* lines 251-261: the output is written to its end and the worker returns success
WorkerSave(i) ==
    /\ Converting /\ wk[i].st = "writing"
    /\ fs' = WriteFile(fs, wk[i].output_path, File(image_paths[i], "webp"))
    /\ Finish(i, SuccessResult(image_paths[i], wk[i].output_path))
    /\ UNCHANGED <<pureVars, cleanVars, prog, pc, dry_run, nobackup, size_files,
                   image_paths, tasks,
                   pass, conv_map, plan, conv_log, exec_log, store, puts, cursor, fs0, store0>>

\* lines 281-310: pool.map returns, the log is written and the map is built
PoolReturns ==
    /\ Converting /\ AllDone
    /\ IF Raised
       THEN /\ pc' = "crashed"
            /\ UNCHANGED <<conv_map, conv_log, wk>>
       ELSE /\ conv_map' = Aggregate(Results)
            /\ conv_log' = [written |-> TRUE, lines |-> LogLines(Results)]
            /\ pc' = IF pc = "analysis" THEN "plan" ELSE "update"
            /\ wk' = wk
    /\ UNCHANGED <<pureVars, cleanVars, prog, dry_run, nobackup, fs, size_files,
                   image_paths, tasks,
                   pass, plan, exec_log, store, puts, cursor, fs0, store0>>

-----------------------------------------------------------------------------
(* main.py: main *)

\* lines 67-70: json.dump(conversion_map, f) into the plan file
PlanNotWritten(conversion_map) == [written |-> FALSE, map |-> EmptyMap]
WrittenPlan(conversion_map) == [written |-> TRUE, map |-> conversion_map]

\* lines 63-70: an empty analysis aborts; the plan is saved, unless the file cannot be
\* written
SavePlan ==
    /\ prog = "convert" /\ pc = "plan"
    /\ IF conv_map = EmptyMap
       THEN pc' = "aborted" /\ plan' = plan
       ELSE \/ pc' = "prompt" /\ plan' = WrittenPlan(conv_map)
            \/ pc' = "crashed" /\ plan' = plan
    /\ UNCHANGED <<pureVars, cleanVars, prog, dry_run, nobackup, fs, size_files,
                   image_paths, tasks,
                   pass, wk, conv_map, conv_log, exec_log, store, puts, cursor, fs0, store0>>

\* lines 87-93: --yes, or the answer yes
PromptYes ==
    /\ prog = "convert" /\ pc = "prompt"
    /\ pc' = IF nobackup /\ ~dry_run THEN "prompt_nobackup" ELSE "backup"
    /\ UNCHANGED <<pureVars, cleanVars, prog, dry_run, nobackup, fs, size_files,
                   image_paths, tasks,
                   pass, wk, conv_map, plan, conv_log, exec_log, store, puts, cursor, fs0,
                   store0>>

\* lines 96-104: the second question of a run without backups
PromptNobackupYes ==
    /\ prog = "convert" /\ pc = "prompt_nobackup"
    /\ pc' = "backup"
    /\ UNCHANGED <<pureVars, cleanVars, prog, dry_run, nobackup, fs, size_files,
                   image_paths, tasks,
                   pass, wk, conv_map, plan, conv_log, exec_log, store, puts, cursor, fs0,
                   store0>>

\* lines 88-91 and 99-102: any other answer
PromptNo ==
    /\ prog = "convert" /\ pc \in {"prompt", "prompt_nobackup"}
    /\ pc' = "aborted"
    /\ UNCHANGED <<pureVars, cleanVars, prog, dry_run, nobackup, fs, size_files,
                   image_paths, tasks,
                   pass, wk, conv_map, plan, conv_log, exec_log, store, puts, cursor, fs0,
                   store0>>

\* success is reported although no backup file was made
BackupReportsSuccess(dry) == TRUE

\* backup.py lines 44-58: backup_database receives the timestamp as its nobackup
\* argument and returns None, so the process reports success in a dry run only
run_backup_process(dry) == dry

\* lines 107-126: the backup step, then the execution pass of a run that is not dry
BackupStep ==
    /\ prog = "convert" /\ pc = "backup"
    /\ IF ~nobackup /\ ~run_backup_process(dry_run) /\ ~dry_run
       THEN pc' = "aborted" /\ UNCHANGED <<pass, wk>>
       ELSE IF ~dry_run
            THEN pc' = "convert" /\ pass' = "real" /\ wk' = PoolOf(Len(image_paths))
            ELSE pc' = "update" /\ UNCHANGED <<pass, wk>>
    /\ UNCHANGED <<pureVars, cleanVars, prog, dry_run, nobackup, fs, size_files,
                   image_paths, tasks,
                   conv_map, plan, conv_log, exec_log, store, puts, cursor, fs0, store0>>

\* api_handler.py lines 136-237: the next item of the store is checked and, when a
\* reference in it changed, sent back unless dry_run
UpdateItem ==
    /\ prog = "convert" /\ pc = "update"
    /\ conv_map # EmptyMap /\ cursor < Len(store)
    /\ LET r == RewriteItem(store[cursor + 1], conv_map)
       IN  IF r[2] /\ ~dry_run
           THEN /\ store' = [store EXCEPT ![cursor + 1] = r[1]]
                /\ puts' = Append(puts, cursor + 1)
           ELSE UNCHANGED <<store, puts>>
    /\ cursor' = cursor + 1
    /\ UNCHANGED <<pureVars, cleanVars, prog, pc, dry_run, nobackup, fs, size_files,
                   image_paths,
                   tasks, pass, wk, conv_map, plan, conv_log, exec_log, fs0, store0>>

\* api_handler.py lines 97-99 and the end of the loops; main.py line 135
UpdateReturns ==
    /\ prog = "convert" /\ pc = "update"
    /\ conv_map = EmptyMap \/ cursor = Len(store)
    /\ pc' = "finished"
    /\ UNCHANGED <<pureVars, cleanVars, prog, dry_run, nobackup, fs, size_files,
                   image_paths, tasks,
                   pass, wk, conv_map, plan, conv_log, exec_log, store, puts, cursor, fs0,
                   store0>>

-----------------------------------------------------------------------------
(* The runs of main.py that are explored *)

MaxImages == 2      \* images in all_images

InDir(name) == IMAGES_PATH \o <<SLASH, "2024", SLASH>> \o name

SourceNames == {<<"a", ".png">>, <<"a", ".jpg">>, <<"a", "_o", ".png">>,
                <<"a", "_o", ".jpg">>, <<"a", ".ico">>, <<"a", "_png", ".gif">>,
                <<"a", "_1", ".jpg">>}

\* the lists without a repeated path, of 1 to n paths
RECURSIVE ListsUpTo(_, _)
ListsUpTo(S, n) ==
    IF n = 0 THEN {<<>>}
    ELSE LET shorter == ListsUpTo(S, n - 1)
         IN  shorter \cup {Append(q, x) : q \in {r \in shorter : Len(r) = n - 1},
                                          x \in S} 

ImageLists == {q \in ListsUpTo({InDir(n) : n \in SourceNames}, MaxImages) :
                    q # <<>> /\ \A i, j \in 1..Len(q) : i # j => q[i] # q[j]}

\* outputs of earlier runs: a.webp and n - 1 numbered ones made from a.png
Earlier(n) ==
    LET names == {<<"a", ".webp">>} \cup {<<"a", NumTok(c), ".webp">> : c \in 1..(n - 1)}
    IN  IF n = 0 THEN NoFiles
        ELSE [q \in {InDir(nm) : nm \in names} |-> File(InDir(<<"a", ".png">>), "webp")]
EarlierOfGroup ==
    (InDir(<<"a", "_png", ".webp">>) :> File(InDir(<<"a", ".png">>), "webp"))
    @@ (InDir(<<"a", "_png", "_o", ".webp">>) :> File(InDir(<<"a", "_o", ".png">>), "webp"))
EarlierFiles == {Earlier(0), Earlier(1), Earlier(2), Earlier(MaxAttempts), EarlierOfGroup}

\* the listed files exist; a.jpg may be one that no decoder reads
SourceFiles(paths) ==
    {[q \in {paths[i] : i \in 1..Len(paths)} |->
            File(q, IF q = InDir(<<"a", ".jpg">>) THEN k ELSE "img")] :
        k \in {"img", "corrupt"}}

\* the published items the list was gathered from: one per image, with the image as
\* body image (plain or as a size variant) and as feature image
SizeVariant(url_path) == <<CI, SLASH, "size", SLASH, "w600">> \o Drop(url_path, 1)
ItemOf(path, sized) ==
    [html |-> <<Img(<<HOST>> \o (IF sized THEN SizeVariant(UrlPathOf(path))
                                ELSE UrlPathOf(path)), <<>>, TRUE)>>,
     feature_image |-> IF sized THEN <<>> ELSE <<HOST>> \o UrlPathOf(path)]
StoreOf(paths) == [i \in 1..Len(paths) |-> ItemOf(paths[i], i % 2 = 0)]

ConvertInit ==
    /\ PureIdle /\ CleanIdle
    /\ prog = "convert" /\ pc = "analysis" /\ pass = "dry"
    /\ dry_run \in BOOLEAN /\ nobackup \in BOOLEAN
    /\ image_paths \in ImageLists
    /\ \E earlier \in EarlierFiles, src \in SourceFiles(image_paths) : fs = src @@ earlier
    /\ size_files = {} /\ tasks = <<>>
    /\ wk = PoolOf(Len(image_paths))
    /\ conv_map = EmptyMap /\ plan = [written |-> FALSE, map |-> EmptyMap]
    /\ conv_log = NoFile /\ exec_log = NoFile
    /\ store = StoreOf(image_paths) /\ puts = <<>> /\ cursor = 0
    /\ fs0 = fs /\ store0 = store

ConvertNext ==
    \/ \E i \in DOMAIN wk : WorkerPlan(i) \/ WorkerOpen(i) \/ WorkerSave(i)
    \/ PoolReturns
    \/ SavePlan
    \/ PromptYes
    \/ PromptNobackupYes
    \/ PromptNo
    \/ BackupStep
    \/ UpdateItem
    \/ UpdateReturns

SpecConvert == ConvertInit /\ [][ConvertNext]_vars

-----------------------------------------------------------------------------
(* reorganize.py: _reorganize_worker *)

\* a task is [file_path, slug, new_filename_base, base_path, content_path_name]
NewPath(t) ==
    t.base_path \o <<SLASH, t.slug, SLASH>> \o t.new_filename_base \o SplitExt(t.file_path)
NewDir(t) == t.base_path \o <<SLASH, t.slug>>

\* lines 66-69: the database paths of the old and the new place
DbPath(t, path) == <<"/content/" \o t.content_path_name>> \o <<SLASH>> \o RelPath(path, t.base_path)

ReorgSuccess(t) == <<"success", DbPath(t, t.file_path), DbPath(t, NewPath(t))>>
\* except Exception as e: return ('error', file_path, str(e))
ReorgError(t, e) == <<"error", t.file_path, <<e>>>>

\* os.rename(src, dst): dst is replaced when it exists
Rename(files, src, dst) ==
    [q \in (DOMAIN files \ {src}) \cup {dst} |-> IF q = dst THEN files[src] ELSE files[q]]

Reorganizing == prog = "reorganize" /\ pc = "pool"

\* lines 34-48: the new path, and unless dry_run the directory and the move
ReorgWorkerMove(i) ==
    /\ Reorganizing /\ wk[i].st = "ready"
    /\ LET t == tasks[i]
       IN  IF ~dry_run
           THEN IF NewDir(t) \in DOMAIN fs                   \* makedirs: a file is there
                THEN Finish(i, ReorgError(t, "File exists")) /\ fs' = fs
                ELSE IF t.file_path = NewPath(t)
                THEN wk' = [wk EXCEPT ![i] = [@ EXCEPT !.st = "moved"]] /\ fs' = fs
                ELSE IF t.file_path \notin DOMAIN fs
                THEN Finish(i, ReorgError(t, "No such file or directory")) /\ fs' = fs
                ELSE /\ fs' = Rename(fs, t.file_path, NewPath(t))
                     /\ wk' = [wk EXCEPT ![i] = [@ EXCEPT !.st = "moved",
                                                          !.output_path = NewPath(t)]]
           ELSE wk' = [wk EXCEPT ![i] = [@ EXCEPT !.st = "moved"]] /\ fs' = fs
    /\ UNCHANGED <<pureVars, cleanVars, prog, pc, dry_run, nobackup, size_files,
                   image_paths, tasks,
                   pass, conv_map, plan, conv_log, exec_log, store, puts, cursor, fs0, store0>>

\* lines 52-71: the files of that name under <content>/size are removed (images only,
\* not in a dry run) and the worker returns success
ReorgWorkerReturn(i) ==
    /\ Reorganizing /\ wk[i].st = "moved"
    /\ LET t == tasks[i]
       IN  /\ size_files' = IF ~dry_run /\ t.content_path_name = "images"
                            THEN {f \in size_files : f[2] # Basename(t.file_path)}
                            ELSE size_files
           /\ Finish(i, ReorgSuccess(t))
    /\ UNCHANGED <<pureVars, cleanVars, prog, pc, dry_run, nobackup, fs, image_paths, tasks,
                   pass, conv_map, plan, conv_log, exec_log, store, puts, cursor, fs0, store0>>

-----------------------------------------------------------------------------
(* reorganize.py: main, the execution phase *)

\* lines 441-453: the lines of the execution log and the map of the successful moves
RECURSIVE ExecLines(_)
ExecLines(results) ==
    IF results = <<>> THEN <<>>
    ELSE LET r == results[1]
         IN  <<IF r[1] = "success" THEN <<"moved", r[2], r[3]>> ELSE <<"failed", r[2]>>>>
             \o ExecLines(Tail(results))

RECURSIVE SuccessfulConversions(_)
SuccessfulConversions(results) ==
    IF results = <<>> THEN EmptyMap
    ELSE LET last == results[Len(results)]
             before == SuccessfulConversions(Slice(results, 1, Len(results) - 1))
         IN  IF last[1] = "success" THEN (last[2] :> last[3]) @@ before ELSE before

\* lines 422-425
ReorgPromptYes ==
    /\ prog = "reorganize" /\ pc = "prompt"
    /\ pc' = "pool"
    /\ UNCHANGED <<pureVars, cleanVars, prog, dry_run, nobackup, fs, size_files,
                   image_paths, tasks,
                   pass, wk, conv_map, plan, conv_log, exec_log, store, puts, cursor, fs0,
                   store0>>

ReorgPromptNo ==
    /\ prog = "reorganize" /\ pc = "prompt"
    /\ pc' = "aborted"
    /\ UNCHANGED <<pureVars, cleanVars, prog, dry_run, nobackup, fs, size_files,
                   image_paths, tasks,
                   pass, wk, conv_map, plan, conv_log, exec_log, store, puts, cursor, fs0,
                   store0>>

\* lines 435-455: pool.map returns, then the execution log is written
ReorgPoolReturns ==
    /\ Reorganizing /\ AllDone
    /\ IF Raised
       THEN pc' = "crashed" /\ UNCHANGED <<conv_map, exec_log>>
       ELSE /\ exec_log' = [written |-> TRUE, lines |-> ExecLines(Results)]
            /\ conv_map' = SuccessfulConversions(Results)
            /\ pc' = "update_db"
    /\ UNCHANGED <<pureVars, cleanVars, prog, dry_run, nobackup, fs, size_files,
                   image_paths, tasks,
                   pass, wk, plan, conv_log, store, puts, cursor, fs0, store0>>

-----------------------------------------------------------------------------
(* reorganize.py: update_database_links *)

\* a post in which the loop reaches a call of _process_url
CallsProcessUrl(post) ==
    \/ post.feature_image # <<>>
    \/ \E k \in 1..Len(post.html) :
          LET tag == post.html[k]
          IN  /\ tag.name \in {"img", "video", "audio"}
              /\ tag.src # <<>> \/ SrcsetParts(tag.srcset) # <<>> \/ tag.sources # <<>>

UpdatingDb == prog \in {"reorganize", "restore"} /\ pc = "update_db"

\* lines 121-123
DbNothingToUpdate ==
    /\ UpdatingDb /\ conv_map = EmptyMap
    /\ pc' = "finished"
    /\ UNCHANGED <<pureVars, cleanVars, prog, dry_run, nobackup, fs, size_files,
                   image_paths, tasks,
                   pass, wk, conv_map, plan, conv_log, exec_log, store, puts, cursor, fs0,
                   store0>>

\* lines 211-212: the connection or a statement fails, the error is printed
DbError ==
    /\ UpdatingDb /\ conv_map # EmptyMap
    /\ pc' = "finished"
    /\ UNCHANGED <<pureVars, cleanVars, prog, dry_run, nobackup, fs, size_files,
                   image_paths, tasks,
                   pass, wk, conv_map, plan, conv_log, exec_log, store, puts, cursor, fs0,
                   store0>>

\* lines 132-203 for the next post: the module's own _process_url (line 75) takes two
\* arguments and is called with four, so the first call raises TypeError, which the
\* except clause of line 211 does not catch; a post without a reference is left alone.
\* The map is not empty here, so a post that refers to a moved file is in the table,
\* and the commit of lines 205-209 is not reached.
DbPost ==
    /\ UpdatingDb /\ conv_map # EmptyMap /\ cursor < Len(store)
    /\ IF CallsProcessUrl(store[cursor + 1])
       THEN pc' = "crashed" /\ cursor' = cursor
       ELSE pc' = pc /\ cursor' = cursor + 1
    /\ UNCHANGED <<pureVars, cleanVars, prog, dry_run, nobackup, fs, size_files,
                   image_paths, tasks,
                   pass, wk, conv_map, plan, conv_log, exec_log, store, puts, fs0, store0>>

-----------------------------------------------------------------------------
(* reorganize.py: restore_from_log *)

\* lines 235-238: the absolute path of a database path ('/content/images/' is cut off)
AbsPath(db_path) == IMAGES_PATH \o <<SLASH>> \o Drop(db_path, 2)

\* lines 241-243: a file that is at the new path of a line is renamed to the
\* original path of the line
MoveBack(files, line) ==
    IF AbsPath(line[3]) \in DOMAIN files
    THEN Rename(files, AbsPath(line[3]), AbsPath(line[2]))
    ELSE files

\* lines 219-243 over a whole list of lines, not in a dry run
RECURSIVE Replay(_, _)
Replay(files, lines) ==
    IF lines = <<>> THEN files
    ELSE Replay(IF lines[1][1] = "moved" THEN MoveBack(files, lines[1]) ELSE files,
                Tail(lines))

\* lines 219-222 over a whole list of lines: the reverse map
RECURSIVE ReverseMap(_)
ReverseMap(lines) ==
    IF lines = <<>> THEN EmptyMap
    ELSE LET last == lines[Len(lines)]
             before == ReverseMap(Slice(lines, 1, Len(lines) - 1))
         IN  IF last[1] = "moved" THEN (last[3] :> last[2]) @@ before ELSE before

\* main lines 393-396: a later invocation with --restore and the execution log of
\* the run
RestoreStart ==
    /\ prog = "reorganize" /\ pc \in {"finished", "crashed"} /\ exec_log.written
    /\ prog' = "restore" /\ pc' = "files"
    /\ dry_run' \in BOOLEAN
    /\ conv_map' = EmptyMap /\ cursor' = 0
    /\ UNCHANGED <<pureVars, cleanVars, nobackup, fs, size_files, image_paths, tasks, pass,
                   wk, plan,
                   conv_log, exec_log, store, puts, fs0, store0>>

\* lines 220-245 for the next line of the log: the reverse entry, and unless dry_run
\* the move back of a file that is at the new path
RestoreLine ==
    /\ prog = "restore" /\ pc = "files" /\ cursor < Len(exec_log.lines)
    /\ LET line == exec_log.lines[cursor + 1]
       IN  IF line[1] = "moved"
           THEN /\ conv_map' = (line[3] :> line[2]) @@ conv_map
                /\ fs' = IF ~dry_run THEN MoveBack(fs, line) ELSE fs
           ELSE UNCHANGED <<conv_map, fs>>
    /\ cursor' = cursor + 1
    /\ UNCHANGED <<pureVars, cleanVars, prog, pc, dry_run, nobackup, size_files,
                   image_paths, tasks,
                   pass, wk, plan, conv_log, exec_log, store, puts, fs0, store0>>

\* lines 247-248: the links are updated with the reverse map
RestoreFilesDone ==
    /\ prog = "restore" /\ pc = "files" /\ cursor = Len(exec_log.lines)
    /\ pc' = "update_db" /\ cursor' = 0
    /\ UNCHANGED <<pureVars, cleanVars, prog, dry_run, nobackup, fs, size_files,
                   image_paths, tasks,
                   pass, wk, conv_map, plan, conv_log, exec_log, store, puts, fs0, store0>>

-----------------------------------------------------------------------------
(* The runs of reorganize.py that are explored *)

MaxTasks == 2       \* files in all_tasks

SlugDir == IMAGES_PATH \o <<SLASH, "s">>
Relocated(n) == SlugDir \o <<SLASH, "s", "-" \o ToString(n), ".png">>

ImageTask(file_path, new_filename_base) ==
    [file_path |-> file_path, slug |-> "s", new_filename_base |-> new_filename_base,
     base_path |-> IMAGES_PATH, content_path_name |-> "images"]

\* the files the post with the slug s may refer to: two images of 2024, one of them
\* an _o original, and two that an earlier run has put under the slug
BodyFiles == {InDir(<<"x", ".png">>), InDir(<<"y", "_o", ".png">>), Relocated(1), Relocated(2)}
FeatureFile == InDir(<<"f", ".png">>)

\* lines 328-329: f"{slug}-{post_image_counter + 1}{suffix}"
BodyBase(file_path, n) ==
    LET original_basename == SplitBase(Basename(file_path))
    IN  <<"s", "-" \o ToString(n)>>
        \o (IF LowerTok(original_basename[Len(original_basename)]) = "_o" THEN <<"_o">>
            ELSE <<>>)

\* the task lists of the analysis: the feature image first, then the body images
\* numbered in their order, no file twice
TaskLists ==
    {q \in UNION {[1..n -> {ImageTask(f, b) :
                        f \in BodyFiles \cup {FeatureFile},
                        b \in {<<"feature_image">>} \cup
                              {BodyBase(g, k) : g \in BodyFiles, k \in 1..MaxTasks}}] :
                  n \in 1..MaxTasks} :
        /\ \A i, j \in 1..Len(q) : i # j => q[i].file_path # q[j].file_path
        /\ \A i \in 1..Len(q) :
              IF q[i].file_path = FeatureFile
              THEN i = 1 /\ q[i].new_filename_base = <<"feature_image">>
              ELSE q[i].new_filename_base =
                      BodyBase(q[i].file_path, IF q[1].file_path = FeatureFile THEN i - 1 ELSE i)}

\* the post the tasks come from, after a post without media
PostOf(q) ==
    LET body == {i \in 1..Len(q) : q[i].file_path # FeatureFile}
        first == IF body = {} THEN 0 ELSE (CHOOSE i \in body : \A j \in body : i <= j) - 1
    IN  [html |-> [k \in 1..Cardinality(body) |->
                        Img(<<HOST>> \o DbPath(q[first + k], q[first + k].file_path),
                            <<>>, TRUE)],
         feature_image |-> IF q[1].file_path = FeatureFile
                           THEN <<HOST>> \o DbPath(q[1], FeatureFile) ELSE <<>>]
PlainPost == [html |-> <<Paragraph>>, feature_image |-> <<>>]

\* files under <content>/size: <<directory, file name>>
SizeFileSets == {{}, {<<"w600", <<"x", ".png">>>>, <<"w300", <<"x", ".png">>>>,
                      <<"w600", <<"z", ".png">>>>}}

ReorgInit ==
    /\ PureIdle /\ CleanIdle
    /\ prog = "reorganize" /\ pc = "prompt"
    /\ dry_run \in BOOLEAN /\ nobackup = FALSE
    /\ pass = IF dry_run THEN "dry" ELSE "real"
    /\ tasks \in TaskLists
    /\ LET listed == {tasks[i].file_path : i \in 1..Len(tasks)}
           under_slug == listed \cap {Relocated(1), Relocated(2)}
       IN  \E other \in SUBSET ({Relocated(1)} \ listed), blocked \in BOOLEAN :
              /\ blocked => (under_slug = {} /\ other = {})
              /\ fs = [q \in listed \cup other \cup (IF blocked THEN {SlugDir} ELSE {}) |->
                            File(q, "img")]
    /\ size_files \in SizeFileSets
    /\ image_paths = <<>>
    /\ wk = PoolOf(Len(tasks))
    /\ conv_map = EmptyMap /\ plan = [written |-> FALSE, map |-> EmptyMap]
    /\ conv_log = NoFile /\ exec_log = NoFile
    /\ store = <<PlainPost, PostOf(tasks)>> /\ puts = <<>> /\ cursor = 0
    /\ fs0 = fs /\ store0 = store

ReorgNext ==
    \/ ReorgPromptYes
    \/ ReorgPromptNo
    \/ \E i \in DOMAIN wk : ReorgWorkerMove(i) \/ ReorgWorkerReturn(i)
    \/ ReorgPoolReturns
    \/ DbNothingToUpdate
    \/ DbError
    \/ DbPost
    \/ RestoreStart
    \/ RestoreLine
    \/ RestoreFilesDone

SpecReorganize == ReorgInit /\ [][ReorgNext]_vars

-----------------------------------------------------------------------------
(* The scripts together *)

Init == ConvertInit \/ ReorgInit

Next == ConvertNext \/ ReorgNext

Spec == Init /\ [][Next]_vars

-----------------------------------------------------------------------------
(* Round trip of reorganize and restore *)

Moved(i) == wk[i].st = "done" /\ wk[i].result[1] = "success" /\ wk[i].output_path # <<>>
RestoredFiles == prog = "restore" /\ pc \in {"update_db", "finished", "crashed"}

\* C1: after a reorganize run that was not dry and a restore from its execution
\* log that was not dry, every file a worker moved is back at its original path and
\* every post has its original html and feature_image
C1_RoundTripRestore ==
    (RestoredFiles /\ pass = "real" /\ ~dry_run)
        => /\ \A i \in DOMAIN wk :
                Moved(i) => /\ tasks[i].file_path \in DOMAIN fs
                            /\ fs[tasks[i].file_path] = fs0[tasks[i].file_path]
           /\ store = store0

-----------------------------------------------------------------------------
(* The names the conversion gives to the members of a duplicate group *)

InGroup(i) == \E g \in find_duplicates_from_list(image_paths) : image_paths[i] \in g
Decided(i) == wk[i].st \in {"planned", "writing"} \/ wk[i].st = "done"
NewPathOf(i) == IF wk[i].st = "done" THEN wk[i].result[3] ELSE wk[i].output_path
Assigned(i) == wk[i].st \in {"planned", "writing"}
               \/ (wk[i].st = "done" /\ wk[i].result[1] = "success")
SourceHasO(i) ==
    LET b == SplitBase(Basename(image_paths[i]))
    IN  b # <<>> /\ LowerTok(b[Len(b)]) = "_o"

\* C3: every member of a duplicate group gets a new .webp path, the paths of two
\* members differ, the name holds the member's extension as _ext, and the basename of
\* a member whose name ends in _o ends in _o
C3_CollisionFreeRenaming ==
    prog = "convert" =>
        \A i \in DOMAIN wk : (InGroup(i) /\ Decided(i)) =>
            /\ Assigned(i)
            /\ LET new == Basename(NewPathOf(i))
               IN  /\ new[Len(new)] = ".webp"
                   /\ \E k \in 1..Len(new) : new[k] = ExtUnderscore(SplitExt(image_paths[i])[1])
                   /\ SourceHasO(i) => new[Len(new) - 1] = "_o"
            /\ \A j \in DOMAIN wk : (j # i /\ InGroup(j) /\ Assigned(j))
                                        => NewPathOf(j) # NewPathOf(i)

-----------------------------------------------------------------------------
(* The map after the aggregation *)

Aggregated == prog = "convert" /\ pc \in {"plan", "prompt", "prompt_nobackup", "backup",
                                          "update", "finished", "aborted"}
Succeeded == {i \in DOMAIN wk : wk[i].result[1] = "success"}
FsKey(i) == image_paths[i]
UrlKey(i) == UrlPathOf(image_paths[i])
AbsoluteKey(i) == <<HOST>> \o UrlPathOf(image_paths[i])

\* C4: after the aggregation the map has, for every success, the filesystem entry,
\* the /content/images entry and the absolute-URL entry of that one rename, the three
\* keys being different, and it has no other entry
C4_MapConsistency ==
    Aggregated =>
        /\ \A i \in Succeeded :
              /\ Cardinality({FsKey(i), UrlKey(i), AbsoluteKey(i)}) = 3
              /\ {FsKey(i), UrlKey(i), AbsoluteKey(i)} \subseteq DOMAIN conv_map
              /\ conv_map[FsKey(i)] = wk[i].result[3]
              /\ conv_map[UrlKey(i)] = UrlPathOf(wk[i].result[3])
              /\ conv_map[AbsoluteKey(i)] = <<HOST>> \o UrlPathOf(wk[i].result[3])
        /\ DOMAIN conv_map = UNION {{FsKey(i), UrlKey(i), AbsoluteKey(i)} : i \in Succeeded}

C4_Witness ==
    /\ Aggregated /\ pass = "real" /\ Succeeded # {}
    /\ \E i \in DOMAIN wk : wk[i].result[1] = "error"

-----------------------------------------------------------------------------
(* The outcomes of the workers *)

PoolReturned ==
    \/ prog = "convert" /\ pc \in {"plan", "prompt", "prompt_nobackup", "update", "finished",
                                   "aborted"}
    \/ prog = "reorganize" /\ pc \in {"update_db", "finished"}
Asset(i) == IF prog = "convert" THEN image_paths[i] ELSE tasks[i].file_path
Batch == IF prog = "convert" THEN image_paths ELSE tasks

\* the failures of one asset: a source no decoder reads, no free name among the
\* candidates, a file where the directory of the slug has to be
Unreadable(i) == prog = "convert" /\ pass = "real" /\ ~Skips(image_paths[i])
                 /\ ~Readable(fs0, image_paths[i])
Exhausted(i) ==
    /\ prog = "convert" /\ ~Skips(image_paths[i])
    /\ UniqueOutput(Dirname(image_paths[i]),
                    FinalBasename(image_paths[i], find_duplicates_from_list(image_paths)),
                    DOMAIN fs0).st = "error"
Blocked(i) == prog = "reorganize" /\ pass = "real" /\ NewDir(tasks[i]) \in DOMAIN fs0
Fails(i) == Unreadable(i) \/ Exhausted(i) \/ Blocked(i)

\* C7: a worker that is done has returned success, skipped or error for its own asset,
\* and error when its asset fails; no run ends because a worker raised; once the pool
\* has returned there is one outcome for every asset of the batch
C7_IsolateAndContinue ==
    prog \in {"convert", "reorganize"} =>
        /\ \A i \in DOMAIN wk : wk[i].st = "done" =>
              /\ wk[i].result[1] \in {"success", "skipped", "error"}
              /\ wk[i].result[2] = (IF wk[i].result[1] = "success" /\ prog = "reorganize"
                                    THEN DbPath(tasks[i], tasks[i].file_path) ELSE Asset(i))
              /\ Fails(i) => wk[i].result[1] = "error"
        /\ ~(pc = "crashed" /\ AllDone /\ Raised)
        /\ PoolReturned => (DOMAIN wk = 1..Len(Batch) /\ AllDone)

C7_Witness ==
    /\ PoolReturned
    /\ \E i, j \in DOMAIN wk : Fails(i) /\ wk[i].result[1] = "error"
                               /\ wk[j].result[1] = "success"

-----------------------------------------------------------------------------
(* Dry runs *)

DryMode == \/ prog = "convert" /\ pass = "dry"
           \/ prog \in {"reorganize", "restore"} /\ dry_run

\* what a dry worker returns: the outcome and the new path computed from the files
DryOutcome(i) ==
    IF prog = "convert"
    THEN LET u == UniqueOutput(Dirname(image_paths[i]),
                       FinalBasename(image_paths[i], find_duplicates_from_list(image_paths)),
                       DOMAIN fs)
         IN  IF Skips(image_paths[i]) THEN SkippedResult(image_paths[i])
             ELSE IF u.st = "error" THEN ErrorResult(image_paths[i], "no unique filename")
             ELSE SuccessResult(image_paths[i], u.output_path)
    ELSE ReorgSuccess(tasks[i])

\* C8: in a dry run, and in the analysis pass of main.py, no step creates, moves,
\* overwrites or deletes a file or sends an update to the store, and a worker that is
\* done has returned the outcome and the new path computed for its item
C8_DryRunMutationFree ==
    /\ [][DryMode => (fs' = fs /\ size_files' = size_files /\ store' = store
                      /\ puts' = puts)]_vars
    /\ []((DryMode /\ prog # "restore")
            => \A i \in DOMAIN wk : wk[i].st = "done" => wk[i].result = DryOutcome(i))

\* a dry run of main.py that came to its end, with an item it would have sent
C8_Witness ==
    /\ prog = "convert" /\ dry_run /\ pc = "finished" /\ cursor = Len(store)
    /\ \E i \in DOMAIN wk : wk[i].result[1] = "success"
    /\ \E k \in 1..Len(store) : RewriteItem(store[k], conv_map)[2]

-----------------------------------------------------------------------------
(* Runs over assets whose transformation was applied before *)

\* the .webp of the image is there from an earlier run
AlreadyConverted(i) ==
    LET done == OutputPath(Dirname(image_paths[i]),
                     FinalBasename(image_paths[i], find_duplicates_from_list(image_paths)))
    IN  done \in DOMAIN fs0 /\ fs0[done] = File(image_paths[i], "webp")
AlreadyRelocated(i) == tasks[i].file_path = NewPath(tasks[i])
OutputsOf(path) == {q \in DOMAIN fs : fs[q].id = path /\ q # path}

\* C9: the worker of an image that has its .webp, or of a file that is at its new
\* path, returns skipped, and the run makes no further output and no move of it
C9_ExecutorIdempotence ==
    \A i \in DOMAIN wk : wk[i].st = "done" =>
        /\ (prog = "convert" /\ AlreadyConverted(i))
              => /\ wk[i].result[1] = "skipped"
                 /\ OutputsOf(image_paths[i]) \subseteq DOMAIN fs0
        /\ (prog = "reorganize" /\ AlreadyRelocated(i))
              => /\ wk[i].result[1] = "skipped"
                 /\ wk[i].output_path = <<>>

-----------------------------------------------------------------------------
(* The execution log and the first destructive action *)

\* C10: in a reorganize run no file is moved, no responsive image is deleted and no
\* post is updated while the execution log is not written
C10_LedgerBeforeMutation ==
    [][(prog = "reorganize" /\ (fs' # fs \/ size_files' # size_files \/ store' # store))
            => exec_log.written]_vars

-----------------------------------------------------------------------------
(* The plan file and the first mutation of a conversion run *)

ConvertMutated == prog = "convert" /\ (fs # fs0 \/ store # store0 \/ puts # <<>>)

\* C11: in a conversion run an image is encoded or an update is sent only when the
\* plan file is written, with the whole map of the analysis pass in it, which is not
\* empty; a run whose plan is empty or is not written changes no file and no item
C11_PlanBeforeMutation ==
    /\ ConvertMutated => (plan.written /\ plan.map # EmptyMap)
    /\ (prog = "convert" /\ pc \notin {"analysis", "plan"} /\ plan.written)
            => LET planned == {i \in 1..Len(image_paths) :
                                    UrlPathOf(image_paths[i]) \in DOMAIN plan.map}
               IN  /\ planned # {}
                   /\ DOMAIN plan.map =
                        UNION {{image_paths[i], UrlPathOf(image_paths[i]),
                                <<HOST>> \o UrlPathOf(image_paths[i])} : i \in planned}
    /\ (prog = "convert" /\ pc \in {"aborted", "crashed"} /\ ~plan.written)
            => (fs = fs0 /\ store = store0 /\ puts = <<>>)

\* an image is encoded and an update is sent
C11_Witness ==
    /\ prog = "convert" /\ plan.written /\ fs # fs0 /\ puts # <<>>
    /\ \E q \in DOMAIN fs \ DOMAIN fs0 : fs[q].kind = "webp"

-----------------------------------------------------------------------------
(* The files that were there before the run *)

\* the new path the run plans for the file at the path q, if it plans one
PlannedPaths(q) ==
    IF prog = "convert" THEN {}
    ELSE {NewPath(tasks[i]) : i \in {j \in 1..Len(tasks) : tasks[j].file_path = q}}

\* C12: during and after a conversion or reorganize run every file that was there
\* before the run is, with its content, at its old path or at the new path planned
\* for it, and no step removes a file under <content>/size
C12_NoImplicitDeletion ==
    /\ [](prog \in {"convert", "reorganize"} =>
            \A q \in DOMAIN fs0 :
                \/ q \in DOMAIN fs /\ fs[q] = fs0[q]
                \/ \E r \in PlannedPaths(q) : r \in DOMAIN fs /\ fs[r] = fs0[q])
    /\ [][(prog \in {"convert", "reorganize"}) => (size_files \subseteq size_files')]_vars

-----------------------------------------------------------------------------
(* The paths the workers of one batch touch *)

\* the worker has opened its output (conversion) or moved its file (reorganize)
Wrote(i) ==
    \/ prog = "convert" /\ pass = "real" /\ wk[i].output_path # <<>>
                        /\ wk[i].st \in {"writing", "done"}
    \/ prog = "reorganize" /\ pass = "real" /\ wk[i].output_path # <<>>
                           /\ wk[i].st \in {"moved", "done"}
SourceOf(i) == IF prog = "convert" THEN image_paths[i] ELSE tasks[i].file_path

\* what the pool leaves when every worker finds the files as they were before the run
AloneOutcome(i) ==
    IF prog = "convert"
    THEN LET u == UniqueOutput(Dirname(image_paths[i]),
                       FinalBasename(image_paths[i], find_duplicates_from_list(image_paths)),
                       DOMAIN fs0)
         IN  IF Skips(image_paths[i]) THEN SkippedResult(image_paths[i])
             ELSE IF u.st = "error" THEN ErrorResult(image_paths[i], "no unique filename")
             ELSE IF ~Readable(fs0, image_paths[i])
                  THEN ErrorResult(image_paths[i], "cannot identify image file")
             ELSE SuccessResult(image_paths[i], u.output_path)
    ELSE IF NewDir(tasks[i]) \in DOMAIN fs0 THEN ReorgError(tasks[i], "File exists")
    ELSE ReorgSuccess(tasks[i])

\* C13: two workers of a batch never write or rename onto the same path, the
\* destination of one is never the source of another, and when the pool has returned
\* every outcome is the one the worker gives on the files as they were before the
\* run, and every moved or encoded file is at the path of that outcome
C13_WorkerDisjointness ==
    (prog \in {"convert", "reorganize"} /\ pass = "real") =>
        /\ \A i, j \in DOMAIN wk : (i # j /\ Wrote(i) /\ Wrote(j)) =>
              /\ wk[i].output_path # wk[j].output_path
              /\ wk[i].output_path # SourceOf(j)
        /\ (PoolReturned /\ pc # "plan") =>
              \A i \in DOMAIN wk :
                  /\ wk[i].result = AloneOutcome(i)
                  /\ (wk[i].result[1] = "success" /\ wk[i].output_path # <<>>) =>
                        /\ wk[i].output_path \in DOMAIN fs
                        /\ fs[wk[i].output_path].id = fs0[SourceOf(i)].id

-----------------------------------------------------------------------------
(* The conversion log *)

RecordsOf(path) == {k \in 1..Len(conv_log.lines) : conv_log.lines[k][2] = path}

\* C14: the conversion log written after a pass has one record for every image of the
\* list, of the kind of the outcome of its worker
C14_CompleteOutcomeReport ==
    (Aggregated /\ conv_log.written) =>
        \A i \in DOMAIN wk :
            /\ Cardinality(RecordsOf(image_paths[i])) = 1
            /\ \A k \in RecordsOf(image_paths[i]) : conv_log.lines[k][1] = wk[i].result[1]

-----------------------------------------------------------------------------
(* db_handler.py: _process_image_url, and the harness of one reference *)

\* lines 104-143: the placeholder is cut off, the size prefix is matched at the start
\* of what is left, the rest is the key; a hit gets both back
ProcessImageUrl(url, conversion_map) ==
    IF url = <<>> THEN url
    ELSE LET ghost_url_prefix == IF url[1] = GHOST_URL THEN <<GHOST_URL>> ELSE <<>>
             rest == Drop(url, Len(ghost_url_prefix))
             size_prefix == SizeMatch(rest)
             map_key == IF size_prefix # <<>> THEN <<CI, SLASH>> \o Drop(rest, 6) ELSE rest
         IN  IF map_key \in DOMAIN conversion_map
             THEN ghost_url_prefix \o
                  (IF size_prefix # <<>>
                   THEN ReplaceFirstCI(conversion_map[map_key], size_prefix)
                   ELSE conversion_map[map_key])
             ELSE url

\* the spellings of a reference the harness draws from
Spellings(url_path) ==
    {url_path, <<HOST>> \o url_path, <<GHOST_URL>> \o url_path,
     SizeVariant(url_path), <<HOST>> \o SizeVariant(url_path),
     <<GHOST_URL>> \o SizeVariant(url_path),
     <<HOST>> \o url_path \o <<"?v=1">>, <<HOST>> \o SizeVariant(url_path) \o <<"?v=1">>}
PrefixRefs ==
    Spellings(UrlPathOf(FsA)) \cup Spellings(UrlPathOf(FsAw)) \cup Spellings(UrlPathOf(FsX))
    \cup {FsA, UrlSEnc}

PrefixInit ==
    /\ ProgIdle
    /\ stage = "ref_in"
    /\ inp \in {[url |-> u, conversion_map |-> MapOfResults(R)] :
                    u \in PrefixRefs, R \in SUBSET HarnessRenames}
    /\ out = [new |-> <<>>, by |-> "none"]

\* file_handler.py: the reference goes through _process_url
ProcessUrlStep ==
    /\ stage = "ref_in"
    /\ out' = [new |-> ProcessUrl(inp.url, inp.conversion_map), by |-> "_process_url"]
    /\ stage' = "ref_done"
    /\ UNCHANGED <<inp, progVars>>

\* db_handler.py: the reference goes through _process_image_url
ProcessImageUrlStep ==
    /\ stage = "ref_in"
    /\ out' = [new |-> ProcessImageUrl(inp.url, inp.conversion_map),
               by |-> "_process_image_url"]
    /\ stage' = "ref_done"
    /\ UNCHANGED <<inp, progVars>>

PrefixNext == ProcessUrlStep \/ ProcessImageUrlStep

SpecPrefix == PrefixInit /\ [][PrefixNext]_vars

\* the reference hits the map: the function found an entry for it
Hit ==
    IF out.by = "_process_url" THEN Lookup(Unquote(inp.url), inp.conversion_map) # <<>>
    ELSE out.new # inp.url

PlaceholderOf(url) == IF url # <<>> /\ url[1] = GHOST_URL THEN <<GHOST_URL>> ELSE <<>>
WithoutPlaceholder(url) == Drop(url, Len(PlaceholderOf(url)))

\* C15: the value written for a reference that hits the map has the host, the
\* placeholder and the /size/wN/ segment of the reference, and what is left of it is
\* a /content/images path of the map
C15_PrefixAndSizePreserved ==
    (stage = "ref_done" /\ Hit) =>
        LET old == WithoutPlaceholder(inp.url)
            new == WithoutPlaceholder(out.new)
        IN  /\ PlaceholderOf(out.new) = PlaceholderOf(inp.url)
            /\ UrlNetloc(new) = UrlNetloc(old)
            /\ SizeMatch(UrlPath(new)) = SizeMatch(UrlPath(Unquote(old)))
            /\ \E k \in DOMAIN inp.conversion_map :
                  NormalizePath(UrlPath(new)) = inp.conversion_map[k]

-----------------------------------------------------------------------------
(* A conversion run that stops at any point *)

\* C16: at no point of a conversion run is there a file under a .webp name whose
\* encoding has not come to its end
C16_NoPartialOutput ==
    prog = "convert" => \A q \in DOMAIN fs : fs[q].kind # "partial"

-----------------------------------------------------------------------------
(* The order in which the lines of an execution log are replayed *)

\* the lines of the log in the order given by the permutation p of their indices
Reordered(lines, p) == [k \in 1..Len(lines) |-> lines[p[k]]]

\* C17: when a restore begins, every order of the lines of the execution log gives
\* the files and the reverse map that the order of the log gives
C17_OrderIndependentReversal ==
    (prog = "restore" /\ pc = "files" /\ cursor = 0 /\ ~dry_run) =>
        \A p \in Permutations(1..Len(exec_log.lines)) :
            /\ Replay(fs, Reordered(exec_log.lines, p)) = Replay(fs, exec_log.lines)
            /\ ReverseMap(Reordered(exec_log.lines, p)) = ReverseMap(exec_log.lines)

-----------------------------------------------------------------------------
(* The plan of the analysis pass and the map of the execution pass *)

\* C18: when the execution pass of a conversion run has returned, its conversion
\* map is the map of the analysis pass that was saved as the plan
C18_PlanEqualsRealMap ==
    (prog = "convert" /\ ~dry_run /\ pc \in {"update", "finished"}) =>
        conv_map = plan.map

-----------------------------------------------------------------------------
(* reorganize.py: analyze_reorganization *)

MaxPosts == 2       \* posts fetched from the database
MaxRefs == 2        \* img urls of one post

\* the urls the posts hold: two images of 2024, one of them an _o original, and a
\* video
ImageRefs == {<<CI, SLASH, "2024", SLASH, "x", ".png">>,
              <<CI, SLASH, "2024", SLASH, "y", "_o", ".png">>}
MediaRef == <<"/content/media", SLASH, "2024", SLASH, "v", ".mp4">>
MediaRef2 == <<"/content/media", SLASH, "2024", SLASH, "w", ".mp4">>
MediaFile == <<"/var/lib/ghost", "/content/media", SLASH, "2024", SLASH, "v", ".mp4">>

\* a row of get_posts_with_media: feature_image is <<>> when the column is NULL or
\* empty; img_urls and media_urls are the urls BeautifulSoup finds in the html
Posts ==
    {[id |-> i, slug |-> "s" \o ToString(i), feature_image |-> f, img_urls |-> u,
      media_urls |-> m] :
        i \in 1..MaxPosts, f \in {<<>>} \cup ImageRefs,
        u \in ListsUpTo(ImageRefs, MaxRefs),
        m \in {<<>>, <<MediaRef>>, <<MediaRef, MediaRef2>>}}

\* the rows come in any order, no id twice
AnalyzeInit ==
    /\ ProgIdle
    /\ stage = "an_in"
    /\ inp \in {[posts |-> q, files |-> F] :
                    q \in {r \in ListsUpTo(Posts, MaxPosts) :
                              \A i, j \in 1..Len(r) : i # j => r[i].id # r[j].id},
                    F \in SUBSET ({AbsPath(r) : r \in ImageRefs}
                               \cup {MediaFile, <<"/var/lib/ghost">> \o MediaRef2})}
    /\ out = [none |-> TRUE]

\* lines 272-275, 310-312, 351-353: a post with a feature image, an img url or a
\* media url has urlparse called on it
CallsUrlparse(post) ==
    post.feature_image # <<>> \/ post.img_urls # <<>> \/ post.media_urls # <<>>

\* lines 250-380. No import of the module binds the name urlparse (lines 2-11), so
\* the first call of it raises NameError and the function does not return. Posts
\* without any url add no task, and the function returns empty lists and an
\* empty map.
analyze_reorganization(posts) ==
    IF \E i \in 1..Len(posts) : CallsUrlparse(posts[i])
    THEN [raised |-> TRUE, image_tasks |-> <<>>, media_tasks |-> <<>>,
          conversion_map |-> EmptyMap]
    ELSE [raised |-> FALSE, image_tasks |-> <<>>, media_tasks |-> <<>>,
          conversion_map |-> EmptyMap]

AnalyzeReorganization ==
    /\ stage = "an_in"
    /\ out' = analyze_reorganization(inp.posts)
    /\ stage' = "an_done"
    /\ UNCHANGED <<inp, progVars>>

\* main lines 398-405 in a second invocation: the same posts and the same files,
\* as no file was moved and no link was rewritten
AnalyzeAgain ==
    /\ stage = "an_done"
    /\ out' = [first |-> out, second |-> analyze_reorganization(inp.posts)]
    /\ stage' = "an_twice"
    /\ UNCHANGED <<inp, progVars>>

SpecAnalyze == AnalyzeInit /\ [][AnalyzeReorganization \/ AnalyzeAgain]_vars

-----------------------------------------------------------------------------
(* The plan of the analysis *)

\* the image files a post refers to, the feature image first, then the body
\* images in the order of the document, each file once
RECURSIVE Collapsed(_)
Collapsed(q) ==
    IF q = <<>> THEN <<>>
    ELSE LET before == Collapsed(Slice(q, 1, Len(q) - 1))
         IN  IF \E k \in 1..Len(before) : before[k] = q[Len(q)] THEN before
             ELSE Append(before, q[Len(q)])
ReferenceList(post) ==
    LET urls == (IF post.feature_image = <<>> THEN <<>> ELSE <<post.feature_image>>)
                \o post.img_urls
    IN  Collapsed([k \in 1..Len(urls) |-> AbsPath(urls[k])])
Ordinal(post, f) ==
    CHOOSE k \in 1..Len(ReferenceList(post)) : ReferenceList(post)[k] = f
Refers(post, f) ==
    \/ \E k \in 1..Len(ReferenceList(post)) : ReferenceList(post)[k] = f
    \/ \E k \in 1..Len(post.media_urls) : f = <<"/var/lib/ghost">> \o post.media_urls[k]
PostsIn == {inp.posts[i] : i \in 1..Len(inp.posts)}
\* the post that owns a file: the one of the lowest id that refers to it
Owns(post, f) ==
    Refers(post, f) /\ \A other \in PostsIn : Refers(other, f) => post.id <= other.id
AllTasks == out.image_tasks \o out.media_tasks

\* C19: when the analysis has ended, every image on disk that a post owns has a
\* task whose new path is <images>/<slug>/<slug>-<ordinal><_o of the original>
\* <extension of the original>, the ordinal being the place of the image in the
\* reference list of the post
C19_RelocateNaming ==
    stage = "an_done" =>
        \A post \in PostsIn :
            \A f \in {g \in inp.files : g[2] = CI /\ Owns(post, g)} :
                \E k \in 1..Len(out.image_tasks) :
                    LET t == out.image_tasks[k]
                        b == SplitBase(Basename(f))
                    IN  /\ t.file_path = f
                        /\ NewPath(t) =
                             IMAGES_PATH
                             \o <<SLASH, post.slug, SLASH, post.slug,
                                  "-" \o ToString(Ordinal(post, f))>>
                             \o (IF LowerTok(b[Len(b)]) = "_o" THEN <<"_o">> ELSE <<>>)
                             \o SplitExt(f)

\* C20: when the analysis has ended, every file on disk that posts refer to is in
\* exactly one task and under exactly one key of the map, and the task has the slug
\* of the post of the lowest id that refers to the file
C20_GlobalOnceOnly ==
    stage = "an_done" =>
        \A f \in {g \in inp.files : \E post \in PostsIn : Refers(post, g)} :
            /\ Cardinality({k \in 1..Len(AllTasks) : AllTasks[k].file_path = f}) = 1
            /\ \A k \in 1..Len(AllTasks) :
                  AllTasks[k].file_path = f =>
                      \E post \in PostsIn : Owns(post, f) /\ AllTasks[k].slug = post.slug
            /\ Cardinality({u \in DOMAIN out.conversion_map :
                              f \in {AbsPath(u), <<"/var/lib/ghost">> \o u}}) = 1

-----------------------------------------------------------------------------
(* Two analyses of the same posts and files *)

-----------------------------------------------------------------------------
(* The search for a free output name *)

\* the candidates of the worker i: number 0 is the computed path, number k the path
\* with the suffix _k
Candidate(i, k) ==
    LET dir == Dirname(image_paths[i])
        base == FinalBasename(image_paths[i], find_duplicates_from_list(image_paths))
    IN  IF k = 0 THEN OutputPath(dir, base) ELSE OutputPath(dir, base \o <<NumTok(k)>>)
\* the worker i settles its output path in this step
Selects(i) ==
    /\ prog = "convert" /\ pc \in {"analysis", "convert"}
    /\ wk[i].st = "ready" /\ wk'[i].st # "ready" /\ ~Skips(image_paths[i])
GivesUp(i) == wk'[i].st = "done" /\ wk'[i].result[1] = "error"
Selected(i) == IF wk'[i].st = "done" THEN wk'[i].result[3] ELSE wk'[i].output_path

\* C22: the worker takes the first of the computed path and the paths with _1, _2,
\* ... that no file has, and no file has it when it is taken; it gives up when the
\* computed path and the paths with _1 to _99 all have a file, and only then, which
\* are 100 tests; the error is the result of that asset, the run goes on and no
\* other worker is touched
C22_BoundedDisambiguation ==
    [][\A i \in DOMAIN wk :
          Selects(i) =>
              /\ GivesUp(i) <=>
                    \A k \in 0..(MaxAttempts - 1) : Candidate(i, k) \in DOMAIN fs
              /\ ~GivesUp(i) =>
                    \E k \in 0..(MaxAttempts - 1) :
                        /\ Selected(i) = Candidate(i, k)
                        /\ Candidate(i, k) \notin DOMAIN fs
                        /\ \A j \in 0..(k - 1) : Candidate(i, j) \in DOMAIN fs
              /\ pc' = pc /\ \A j \in DOMAIN wk \ {i} : wk'[j] = wk[j]]_vars

\* a worker has given up with a.webp and a_1.webp to a_99.webp on disk, and another
\* run has taken a numbered name
C22_Witness ==
    /\ prog = "convert"
    /\ \E i \in DOMAIN wk :
          /\ wk[i].st = "done" /\ wk[i].result[1] = "error" /\ Exhausted(i)
          /\ Candidate(i, MaxAttempts) \notin DOMAIN fs

\* C22 as stated: a worker gives up only when the 100 paths with _1 to _100 all have
\* a file
C22_HundredCandidates ==
    [][\A i \in DOMAIN wk :
          (Selects(i) /\ GivesUp(i)) =>
              \A k \in 1..MaxAttempts : Candidate(i, k) \in DOMAIN fs]_vars

-----------------------------------------------------------------------------
(* The feature image of an item *)

\* C23: an item whose feature_image has a key in the map comes back with the changed
\* feature_image and is reported changed, whatever its html is
C23_FlatFieldVisited ==
    LET old == inp.item.feature_image
        new == ProcessUrl(old, inp.conversion_map)
    IN  (stage = "rw_done" /\ old # <<>> /\ new # old
            /\ Lookup(Unquote(old), inp.conversion_map) # <<>>) =>
            (out.changed /\ out.item.feature_image = new)

-----------------------------------------------------------------------------
(* References through size and format variants *)

\* the urls of the size and the format variant of a file of the directory 2024
VariantsOf(f) ==
    {<<CI>> \o v \o Drop(f, 1) :
        v \in {<<SLASH, "size", SLASH, "w300">>, <<SLASH, "format", SLASH, "webp">>}}
InBaseDir(f) == f[2] = SLASH /\ f[3] = "2024"

\* C24: a file on disk outside size and format directories that is referenced
\* through a size or a format variant is not in the list of unused files
C24_VariantCountsAsUse ==
    stage = "cl_done" =>
        \A f \in inp.physical :
            (InBaseDir(f) /\ inp.used \cap VariantsOf(f) # {}) =>
                AbsoluteOf(f) \notin out.unused

\* 2024/b.png is on disk, referenced as size/w300/2024/b.png only, and is not in
\* the list
C24_Witness ==
    LET b == <<CI, SLASH, "2024", SLASH, "b", ".png">>
    IN  /\ stage = "cl_done"
        /\ b \in inp.physical
        /\ inp.used = {<<CI, SLASH, "size", SLASH, "w300", SLASH, "2024", SLASH, "b", ".png">>}
        /\ AbsoluteOf(b) \notin out.unused

-----------------------------------------------------------------------------
(* cleanup.py: get_used_images_from_api and the script *)

\* lines 59-94 and 97-108: the paths of the urls of the posts and of the settings
\* logo, cover_image and icon that begin with /content/images/ or
\* /content/media/; the only requests are those for posts/ and for settings/
get_used_images_from_api(site) ==
    {UrlPath(u) : u \in {v \in site.posts \cup site.settings :
                            UrlPath(v) # <<>>
                            /\ UrlPath(v)[1] \in {CI, "/content/media"}}}

\* the answer is not looked at
ProceedsAlways(user_input) == TRUE
\* line 246: user_input.lower() != 'yes' returns
Proceeds(user_input) == user_input \in {"yes", "YES"}

\* the files on disk and the urls of the posts, the pages and the settings
CleanupFiles ==
    {AbsoluteOf(<<CI, SLASH, "2024", SLASH>> \o n) :
        n \in {<<"a", ".png">>, <<"b", ".png">>, <<"a", "_o", ".png">>}}
CleanupRefs ==
    {<<HOST, CI, SLASH, "2024", SLASH, "a", ".png">>,
     <<HOST, CI, SLASH, "size", SLASH, "w300", SLASH, "2024", SLASH, "b", ".png">>}

CleanupRunInit ==
    /\ PureIdle
    /\ prog = "cleanup" /\ pc = "scan"
    /\ dry_run \in BOOLEAN /\ nobackup \in BOOLEAN
    /\ \E F \in SUBSET CleanupFiles : fs = [q \in F |-> File(q, "img")]
    /\ store \in [posts : SUBSET CleanupRefs, pages : SUBSET CleanupRefs,
                  settings : SUBSET CleanupRefs]
    /\ CleanIdle
    /\ size_files = {} /\ image_paths = <<>> /\ tasks = <<>> /\ pass = "none" /\ wk = <<>>
    /\ conv_map = EmptyMap /\ plan = [written |-> FALSE, map |-> EmptyMap]
    /\ conv_log = NoFile /\ exec_log = NoFile /\ puts = <<>> /\ cursor = 0
    /\ fs0 = fs /\ store0 = store

\* lines 122-126: the scan returns the used paths, or None when no token is made or
\* a request fails
ScanApi ==
    /\ prog = "cleanup" /\ pc = "scan"
    /\ \/ used_images' = get_used_images_from_api(store) /\ pc' = "find"
       \/ used_images' = used_images /\ pc' = "scan_failed"
    /\ UNCHANGED <<pureVars, prog, dry_run, nobackup, fs, size_files, image_paths, tasks,
                   pass, wk, conv_map, plan, conv_log, exec_log, store, puts, cursor, fs0,
                   store0, unused_files, archive, answer>>

\* lines 134-191 and 229-235: the unused files; nothing more happens when there is
\* none or in a dry run
FindUnused ==
    /\ prog = "cleanup" /\ pc = "find"
    /\ unused_files' = UnusedFilePaths({UrlPathOf(q) : q \in DOMAIN fs}, used_images)
    /\ pc' = IF unused_files' = {} \/ dry_run THEN "finished" ELSE "prompt"
    /\ UNCHANGED <<pureVars, prog, dry_run, nobackup, fs, size_files, image_paths, tasks,
                   pass, wk, conv_map, plan, conv_log, exec_log, store, puts, cursor, fs0,
                   store0, used_images, archive, answer>>

\* lines 245-256: the answer; after yes the list of the files is written to a log
CleanupPrompt ==
    /\ prog = "cleanup" /\ pc = "prompt"
    /\ \E user_input \in {"yes", "YES", "no"} :
          /\ answer' = user_input
          /\ IF Proceeds(user_input)
             THEN /\ exec_log' = [written |-> TRUE, lines |-> unused_files]
                  /\ pc' = IF nobackup THEN "delete" ELSE "backup"
             ELSE exec_log' = exec_log /\ pc' = "cancelled"
    /\ UNCHANGED <<pureVars, prog, dry_run, nobackup, fs, size_files, image_paths, tasks,
                   pass, wk, conv_map, plan, conv_log, store, puts, cursor, fs0, store0,
                   used_images, unused_files, archive>>

\* lines 258-303: the archive is written with pigz or with tarfile; an error of
\* tarfile is not caught
CleanupBackup ==
    /\ prog = "cleanup" /\ pc = "backup"
    /\ \/ archive' = [written |-> TRUE, lines |-> unused_files] /\ pc' = "delete"
       \/ archive' = archive /\ pc' = "crashed"
    /\ UNCHANGED <<pureVars, prog, dry_run, nobackup, fs, size_files, image_paths, tasks,
                   pass, wk, conv_map, plan, conv_log, exec_log, store, puts, cursor, fs0,
                   store0, used_images, unused_files, answer>>

\* lines 307-316: every file of the list is removed; a file whose removal fails
\* stays
CleanupDelete ==
    /\ prog = "cleanup" /\ pc = "delete"
    /\ \E failed \in SUBSET unused_files :
          fs' = [q \in DOMAIN fs \ (unused_files \ failed) |-> fs[q]]
    /\ pc' = "finished"
    /\ UNCHANGED <<pureVars, prog, dry_run, nobackup, size_files, image_paths, tasks,
                   pass, wk, conv_map, plan, conv_log, exec_log, store, puts, cursor, fs0,
                   store0, used_images, unused_files, archive, answer>>

CleanupRunNext == ScanApi \/ FindUnused \/ CleanupPrompt \/ CleanupBackup \/ CleanupDelete

SpecCleanupRun == CleanupRunInit /\ [][CleanupRunNext]_vars

-----------------------------------------------------------------------------
(* The files cleanup.py calls unused *)

\* a url refers to the file: its path is the path of the file, or the path of the
\* file with a size or a format segment
RefersTo(u, q) == UrlPath(u) \in {UrlPathOf(q)} \cup VariantsOf(UrlPathOf(q))

\* C25: no file of the unused list is referred to by a post, by a page or by a
\* setting
C25_OrphansUnreferenced ==
    (prog = "cleanup" /\ pc \in {"prompt", "backup", "delete", "cancelled", "finished"}) =>
        \A q \in unused_files :
            \A u \in store.posts \cup store.pages \cup store.settings : ~RefersTo(u, q)

-----------------------------------------------------------------------------
(* The new paths of one batch *)

\* C26: in the analysis pass and in the execution pass of a conversion run, two
\* images of the batch that both have the result success have different new paths
C26_InjectivePlan ==
    prog = "convert" =>
        \A i, j \in DOMAIN wk :
            (/\ i # j
             /\ wk[i].st = "done" /\ wk[i].result[1] = "success"
             /\ wk[j].st = "done" /\ wk[j].result[1] = "success")
                => wk[i].result[3] # wk[j].result[3]

-----------------------------------------------------------------------------
(* The references the rewriter wrote *)

\* the references of the updated item k that the item did not have before the run
WrittenRefs(k) == ItemRefs(store[k]) \ ItemRefs(store0[k])
\* the file a reference denotes: the path of the url without size and format
\* segments, under images_path
Denoted(u) == AbsoluteOf(CleanupBase(UrlPath(u)))

-----------------------------------------------------------------------------
(* api_handler.py: get_image_urls_from_published_content, for one item *)

\* lines 35-54: the feature image, and from a body that is not empty the src and the
\* srcset urls of every img and every source element, nested or not
get_image_urls(item) ==
    ({item.feature_image}
     \cup UNION {IF item.html[i].name \in {"img", "source"} THEN TagRefs(item.html[i])
                 ELSE {item.html[i].sources[k] : k \in 1..Len(item.html[i].sources)} :
                    i \in 1..Len(item.html)})
        \ {<<>>}

\* the reference is, host and size and format segments removed, a key of the map
IsKey(u, conversion_map) ==
    \/ Unquote(u) \in DOMAIN conversion_map
    \/ NormalizePath(UrlPath(Unquote(u))) \in DOMAIN conversion_map

\* C28: after the rewrite with a map that is not empty, no reference that the
\* inventory collects from the item is a key of the map
C28_ReferenceCompleteness ==
    (stage = "rw_done" /\ DOMAIN inp.conversion_map # {}) =>
        \A u \in get_image_urls(out.item) : ~IsKey(u, inp.conversion_map)

-----------------------------------------------------------------------------
(* What has to hold before cleanup.py deletes *)

\* C29: a step of cleanup.py removes files only of the unused list, only when the
\* run is not a dry run, the answer was yes (in any case of letters), and the
\* archive of the unused files is written or --nobackup is given; it changes no other
\* file; after a failed scan, after another answer, after an error of the backup and
\* in a dry run the files are those the run began with
C29_DeletionGating ==
    /\ [][(prog = "cleanup" /\ fs' # fs) =>
            /\ ~dry_run
            /\ answer \in {"yes", "YES"}
            /\ nobackup \/ (archive.written /\ archive.lines = unused_files)
            /\ DOMAIN fs' \subseteq DOMAIN fs
            /\ (DOMAIN fs \ DOMAIN fs') \subseteq unused_files
            /\ \A q \in DOMAIN fs' : fs'[q] = fs[q]]_vars
    /\ []((prog = "cleanup" /\ (dry_run \/ pc \in {"scan_failed", "cancelled", "crashed"}))
            => fs = fs0)

\* files were deleted after the archive was written
C29_Witness ==
    /\ prog = "cleanup" /\ pc = "finished" /\ ~nobackup /\ archive.written
    /\ DOMAIN fs # DOMAIN fs0

-----------------------------------------------------------------------------
(* The order of the steps of a conversion run *)

\* the place of a position of main in the order of the steps
StepOrder(p) ==
    CASE p = "analysis" -> 1 [] p = "plan" -> 2 [] p = "prompt" -> 3
      [] p = "prompt_nobackup" -> 4 [] p = "backup" -> 5 [] p = "convert" -> 6
      [] p = "update" -> 7 [] OTHER -> 8

=============================================================================
